---- MODULE Spec2Model ----
(***************************************************************************)
(* Model of the device polling / buffering core of RaftCore:               *)
(*   BusAddrStatus    - online/offline hysteresis of one bus address       *)
(*   OfflineDataStore - RAM ring of fixed-size poll results                *)
(*   DeviceStatus     - one device: sequence counter, pause flags, ring    *)
(*                      and the poll scheduler (getPendingIdentPollInfo)   *)
(*   OfflineDataStoreNVS - persistent ring in an NVS namespace: meta blob, *)
(*                      segment blobs, import into the RAM ring            *)
(* Integers keep the width of the C++ types where a conversion decides the *)
(* result (int8_t count against uint32_t thresholds, uint16_t timestamps,  *)
(* uint32_t adjusted timestamps).                                          *)
(***************************************************************************)
EXTENDS Integers, Sequences, FiniteSets, TLC

VARIABLES
    addr,       \* the BusAddrStatus record
    thr,        \* [okMax, failMax] passed to every handleResponding call
    trace,      \* the handleResponding calls made so far, with their results
    ring,       \* the OfflineDataStore (RAM ring) of one device
    putLog,     \* accepted puts since the ring was last initialised or cleared
    drainLog,   \* entries returned by consuming gets since then, in order
    lastOp,     \* the last ring operation and what it returned
    dev,        \* the DeviceStatus fields around the ring
    clockUs,    \* the time now, passed to the poll scheduler (microseconds)
    pollLog,    \* the poll requests getPendingIdentPollInfo returned so far
    flash,      \* the NVS namespace of the persistent ring: meta and segments
    nvs,        \* the OfflineDataStoreNVS object
    nvsOp,      \* the last operation on the persistent ring and how it went
    nvsLog,     \* the entries appendBatch stored since the last reset
    man,        \* the DeviceManager: device list and status-change callbacks
    cbOp,       \* the last busElemStatusCB call and the calls it made
    offCtl,     \* the offline control state of a bus (behind RaftBusDevicesIF)
    apiOp,      \* the last offlinebuf request, its calls and what it reported
    tasks       \* two tasks at the device list: mutex, snapshot, list update

addrVars == <<addr, thr, trace>>
ringVars == <<ring, putLog, drainLog, lastOp>>
\* what an operation of one component leaves alone
notAddrVars ==
    <<ring, putLog, drainLog, lastOp, dev, clockUs, pollLog, flash, nvs, nvsOp, nvsLog,
      man, cbOp, offCtl, apiOp, tasks>>
notRingVars ==
    <<addr, thr, trace, dev, clockUs, pollLog, flash, nvs, nvsOp, nvsLog,
      man, cbOp, offCtl, apiOp, tasks>>
notDevVars ==
    <<addr, thr, trace, lastOp, clockUs, pollLog, flash, nvs, nvsOp, nvsLog,
      man, cbOp, offCtl, apiOp, tasks>>
notPollVars ==
    <<addr, thr, trace, ring, putLog, drainLog, lastOp, flash, nvs, nvsOp, nvsLog,
      man, cbOp, offCtl, apiOp, tasks>>
notNvsVars ==
    <<addr, thr, trace, putLog, drainLog, lastOp, dev, clockUs, pollLog,
      man, cbOp, offCtl, apiOp, tasks>>
notManVars ==
    <<addr, thr, trace, ring, putLog, drainLog, lastOp, dev, clockUs, pollLog,
      flash, nvs, nvsOp, nvsLog, offCtl, apiOp, tasks>>
notFrozenVars ==
    <<addr, thr, trace, ring, putLog, drainLog, lastOp, dev, clockUs, pollLog,
      flash, nvs, nvsOp, nvsLog, offCtl, apiOp>>
notApiVars ==
    <<addr, thr, trace, ring, putLog, drainLog, lastOp, dev, clockUs, pollLog,
      flash, nvs, nvsOp, nvsLog, man, cbOp, tasks>>
vars ==
    <<addr, thr, trace, ring, putLog, drainLog, lastOp, dev, clockUs, pollLog,
      flash, nvs, nvsOp, nvsLog, man, cbOp, offCtl, apiOp, tasks>>

----------------------------------------------------------------------------
(* Bounds of the model *)

\* Largest okMax / failMax threshold tried
MaxThreshold == 3
\* Number of handleResponding calls in one run
MaxCalls == 7
\* Largest ring capacity (maxEntries) configured
MaxRingEntries == 2
\* Accepted puts between two initialisations / clears of the ring
MaxPuts == 4
\* The same where every ring operation is tried, not only put and get
MaxPutsAllOps == 3
\* Poll results a device stores in one run (its sequence counter stays below)
MaxOfflineSeq == 3
\* Poll results a device buffers between two clears / configurations
MaxDevPuts == 2
\* Length of a run of the poll scheduler, in milliseconds
MaxTimeMs == 12
\* Largest capacity of the persistent ring
MaxNvsEntries == 2
\* Largest number of entries in one appendBatch
MaxBatch == 2
\* Largest sequence number stored in the persistent ring
MaxNvsSeq == 3

\* Devices in the device list, and status-change callbacks registered
MaxDevices == 2
MaxStatusCBs == 2

----------------------------------------------------------------------------
(* C++ integer conversions *)

TwoTo8 == 2 ^ 8
TwoTo16 == 2 ^ 16

\* A uint32_t is held as the int32_t with the same bits (two's complement):
\* v itself below 2^31, v - 2^32 from 2^31 up.  An int converted to uint32_t
\* keeps its bits, so the conversion is the identity on this representation;
\* the unsigned comparisons are:
ULt(a, b) == IF (a >= 0) = (b >= 0) THEN a < b ELSE b < 0
ULe(a, b) == a = b \/ ULt(a, b)

\* conversion of an int to uint16_t
U16(x) == x % TwoTo16

\* A uint64_t is held as [hi, lo] with value hi * 2^16 + lo, 0 <= lo < 2^16
\* (the model checker's integers end at 2^31 - 1).
W(n) == [hi |-> n \div TwoTo16, lo |-> n % TwoTo16]
WAdd(a, b) ==
    LET l == a.lo + b.lo IN [hi |-> a.hi + b.hi + (l \div TwoTo16), lo |-> l % TwoTo16]
\* a - b for a >= b
WSub(a, b) ==
    LET l == a.lo - b.lo IN
    IF l >= 0 THEN [hi |-> a.hi - b.hi, lo |-> l]
    ELSE [hi |-> a.hi - b.hi - 1, lo |-> l + TwoTo16]
WLe(a, b) == a.hi < b.hi \/ (a.hi = b.hi /\ a.lo <= b.lo)
WLt(a, b) == a.hi < b.hi \/ (a.hi = b.hi /\ a.lo < b.lo)
\* a * m for a small m
WMul(a, m) ==
    LET l == a.lo * m IN [hi |-> a.hi * m + (l \div TwoTo16), lo |-> l % TwoTo16]
\* 1ULL << bits
WShl1(bits) ==
    IF bits < 16 THEN [hi |-> 0, lo |-> 2 ^ bits] ELSE [hi |-> 2 ^ (bits - 16), lo |-> 0]
\* conversion of a uint64_t to uint32_t
WU32(a) == [hi |-> a.hi % TwoTo16, lo |-> a.lo]
\* conversion of a uint64_t to uint16_t
WU16(a) == a.lo

\* conversion of an int to int8_t (modular, as every supported compiler does)
ToInt8(x) == LET m == x % TwoTo8 IN IF m >= 128 THEN m - TwoTo8 ELSE m

----------------------------------------------------------------------------
(* BusAddrStatus *)

ADDR_RESP_COUNT_FAIL_MAX_DEFAULT == 3
ADDR_RESP_COUNT_OK_MAX_DEFAULT == 2

DeviceOnlineState == {"INITIAL", "ONLINE", "OFFLINE"}

\* BusAddrStatus() = default : the member initialisers
BusAddrStatusDefault ==
    [count |-> 0, isChange |-> FALSE, isOnline |-> FALSE, wasOnceOnline |-> FALSE,
     flagForDeletion |-> FALSE, onlineState |-> "INITIAL"]

\* BusAddrStatus(address, onlineState, isChange, isNewlyIdentified)
BusAddrStatusCtor(onlineState, isChange) ==
    [count |-> 0, isChange |-> isChange, isOnline |-> (onlineState = "ONLINE"),
     wasOnceOnline |-> (onlineState = "ONLINE"),
     flagForDeletion |-> FALSE, onlineState |-> onlineState]

\* count = (count < okMax) ? count + 1 : count;   (int8_t against uint32_t)
CountUp(count, okMax) ==
    IF ULt(count, okMax) THEN ToInt8(count + 1) ELSE count

OnlineReached_Late(count, okMax) == ULt(okMax, count)

\* if (count >= okMax)
OnlineReached(count, okMax) == ULe(okMax, count)

\* count = (count < -failMax) ? count : count - 1;
\* -failMax is the uint32_t 2^32 - failMax (bits of the int -failMax) and
\* count converts to uint32_t for the comparison
CountDown(count, failMax) ==
    IF ULt(count, 0 - failMax) THEN count ELSE ToInt8(count - 1)

\* if (count <= -failMax)
OfflineReached(count, failMax) == ULe(count, 0 - failMax)

CountsFailures_NotWhenFlagged(a) == a.isOnline \/ ~a.wasOnceOnline

\* if (isOnline || !wasOnceOnline || flagForDeletion)
CountsFailures(a) == a.isOnline \/ ~a.wasOnceOnline \/ a.flagForDeletion

IsSpurious_NeverOnlineOnly(a) == ~a.wasOnceOnline

\* if (!wasOnceOnline || flagForDeletion) flagSpuriousRecord = true;
IsSpurious(a) == ~a.wasOnceOnline \/ a.flagForDeletion

GoOnline_KeepsWasOnceOnline(a) ==
    [a EXCEPT !.isChange = ~a.isChange, !.count = 0, !.isOnline = TRUE,
              !.onlineState = "ONLINE", !.flagForDeletion = FALSE]

\* the "Now online" block
GoOnline(a) ==
    [a EXCEPT !.isChange = ~a.isChange, !.count = 0, !.isOnline = TRUE,
              !.onlineState = "ONLINE", !.wasOnceOnline = TRUE,
              !.flagForDeletion = FALSE]

\* the "Now offline/spurious" block
GoOffline(a) ==
    [a EXCEPT !.count = 0,
              !.isChange = IF IsSpurious(a) THEN a.isChange ELSE ~a.isChange,
              !.isOnline = FALSE, !.onlineState = "OFFLINE",
              !.flagForDeletion = TRUE]

\* bool handleResponding(isResponding, flagSpuriousRecord, okMax, failMax):
\* st is the record afterwards, changed the return value, spurious whether
\* the call wrote true to flagSpuriousRecord
HandleResponding(a, isResponding, okMax, failMax) ==
    IF isResponding
    THEN IF ~a.isOnline
         THEN LET c == CountUp(a.count, okMax) IN
              IF OnlineReached(c, okMax)
              THEN [st |-> GoOnline([a EXCEPT !.count = c]),
                    changed |-> TRUE, spurious |-> FALSE]
              ELSE [st |-> [a EXCEPT !.count = c],
                    changed |-> FALSE, spurious |-> FALSE]
         ELSE [st |-> a, changed |-> FALSE, spurious |-> FALSE]
    ELSE IF CountsFailures(a)
         THEN LET c == CountDown(a.count, failMax) IN
              IF OfflineReached(c, failMax)
              THEN [st |-> GoOffline([a EXCEPT !.count = c]),
                    changed |-> TRUE, spurious |-> IsSpurious(a)]
              ELSE [st |-> [a EXCEPT !.count = c],
                    changed |-> FALSE, spurious |-> FALSE]
         ELSE [st |-> a, changed |-> FALSE, spurious |-> FALSE]

\* One call of handleResponding on the record, logged with the record before
\* and after it
Responding(isResponding) ==
    /\ Len(trace) < MaxCalls
    /\ LET r == HandleResponding(addr, isResponding, thr.okMax, thr.failMax) IN
       /\ addr' = r.st
       /\ trace' = Append(trace, [resp |-> isResponding, changed |-> r.changed,
                                  spurious |-> r.spurious, pre |-> addr,
                                  post |-> r.st])
    /\ UNCHANGED thr
    /\ UNCHANGED notAddrVars

----------------------------------------------------------------------------
(* OfflineDataStore: the RAM ring *)

META_STORAGE_BYTES == 4

\* Raft::getBEUInt16AndInc on the first two bytes of a payload
getBEUInt16(data) == data[1] * TwoTo8 + data[2]

\* Raft::getBEUInt32AndInc on the first four bytes of a payload (a uint32_t,
\* held in two 16-bit halves)
getBEUInt32(data) ==
    [hi |-> data[1] * TwoTo8 + data[2], lo |-> data[3] * TwoTo8 + data[4]]

\* The member initialisers: an unconfigured store
ODS_default ==
    [ringBuffer |-> <<>>, adjTimestampMs |-> <<>>, headIdx |-> 0, count |-> 0,
     maxEntries |-> 0, payloadSize |-> 0, timestampBytes |-> 0,
     timestampResolutionUs |-> 0, timestampWrapMs |-> W(0),
     timestampBaseMs |-> W(0), lastTimestampVal |-> 0,
     lastTimestampValid |-> FALSE, drops |-> 0, tsWrapCount |-> 0, nextSeq |-> 0]

\* void init(maxEntries, payloadSize, timestampBytes, timestampResolutionUs)
\* Slot i of the ring (0-based in the code) is element i + 1 of ringBuffer.
ODS_init(maxEntries, payloadSize, timestampBytes, timestampResolutionUs) ==
    [ringBuffer |-> [i \in 1..maxEntries |-> [b \in 1..payloadSize |-> 0]],
     adjTimestampMs |-> [i \in 1..maxEntries |-> W(0)],
     headIdx |-> 0, count |-> 0,
     maxEntries |-> maxEntries, payloadSize |-> payloadSize,
     timestampBytes |-> timestampBytes,
     timestampResolutionUs |-> timestampResolutionUs,
     timestampWrapMs |-> WMul(WShl1(timestampBytes * 8), timestampResolutionUs \div 1000),
     timestampBaseMs |-> W(0), lastTimestampVal |-> 0,
     lastTimestampValid |-> FALSE, drops |-> 0, tsWrapCount |-> 0, nextSeq |-> 0]

\* void clear()
ODS_clear(r) ==
    [r EXCEPT !.headIdx = 0, !.count = 0, !.drops = 0, !.tsWrapCount = 0,
              !.lastTimestampValid = FALSE, !.timestampBaseMs = W(0),
              !.lastTimestampVal = 0, !.nextSeq = 0]

\* bool isConfigured() const
isConfigured(r) == r.maxEntries > 0 /\ r.payloadSize > 0

\* The uint16_t tsVal that put and get read from a payload
TsVal(r, data) ==
    IF r.timestampBytes = 1 THEN data[1]
    ELSE IF r.timestampBytes = 2 THEN getBEUInt16(data)
    ELSE IF r.timestampBytes = 4 THEN WU16(getBEUInt32(data))
    ELSE 0

\* put: _timestampBaseMs on the first put after init / clear
FirstTimestampBase(r, timeNowMs, tsVal) ==
    LET tsResolutionMs == r.timestampResolutionUs \div 1000 IN
    IF tsResolutionMs > 0 /\ timeNowMs > tsVal * tsResolutionMs
    THEN W(timeNowMs - tsVal * tsResolutionMs)
    ELSE W(0)

\* put: if (_lastTimestampValid && (tsVal < _lastTimestampVal))
TimestampWrapped(r, tsVal) == r.lastTimestampValid /\ tsVal < r.lastTimestampVal

CountAfterPut_NoCap(r) == r.count + 1

\* put: if (_count < _maxEntries) _count++;
CountAfterPut(r) == IF r.count < r.maxEntries THEN r.count + 1 ELSE r.count

DropsAfterPut_Never(r) == r.drops

\* put: else _drops++;
DropsAfterPut(r) == IF r.count < r.maxEntries THEN r.drops ELSE r.drops + 1

PutRejected_UnconfiguredOnly(r, data) == ~isConfigured(r)

\* put: if (!isConfigured() || (data.size() != _payloadSize)) return false;
PutRejected(r, data) == ~isConfigured(r) \/ Len(data) # r.payloadSize

\* bool put(uint64_t timeNowUs, uint32_t seq, const std::vector<uint8_t>& data)
ODS_put(r, timeNowUs, seq, data) ==
    IF PutRejected(r, data)
    THEN [ok |-> FALSE, st |-> r]
    ELSE
    LET tsVal == TsVal(r, data)
        timeNowMs == timeNowUs \div 1000
        base0 == IF ~r.lastTimestampValid
                 THEN FirstTimestampBase(r, timeNowMs, tsVal)
                 ELSE r.timestampBaseMs
        wrapped == TimestampWrapped(r, tsVal)
        base1 == IF wrapped THEN WAdd(base0, r.timestampWrapMs) ELSE base0
        tsResolutionMs == r.timestampResolutionUs \div 1000
        adjustedTsMs == WAdd(base1, W(tsVal * tsResolutionMs))
    IN [ok |-> TRUE,
        st |-> [r EXCEPT
            !.timestampBaseMs = base1,
            !.tsWrapCount = IF wrapped THEN r.tsWrapCount + 1 ELSE r.tsWrapCount,
            !.lastTimestampVal = tsVal,
            !.lastTimestampValid = TRUE,
            !.ringBuffer[r.headIdx + 1] = data,
            !.adjTimestampMs[r.headIdx + 1] = WU32(adjustedTsMs),
            !.count = CountAfterPut(r),
            !.drops = DropsAfterPut(r),
            !.headIdx = (r.headIdx + 1) % r.maxEntries,
            !.nextSeq = seq + 1]]

NumResponses_NoByteCap(r, maxResponsesToReturn, startIdx, maxBytes) ==
    IF r.count = 0 \/ startIdx >= r.count THEN 0
    ELSE IF maxResponsesToReturn = 0 \/ r.count - startIdx < maxResponsesToReturn
    THEN r.count - startIdx ELSE maxResponsesToReturn

\* get: numResponses from maxResponsesToReturn, startIdx and maxBytes
\* (startIdx already forced to 0 for a consuming get; 0 on every early return)
NumResponses(r, maxResponsesToReturn, startIdx, maxBytes) ==
    IF r.count = 0 \/ startIdx >= r.count THEN 0
    ELSE
    LET available == r.count - startIdx
        numResponses == IF maxResponsesToReturn = 0 \/ available < maxResponsesToReturn
                        THEN available ELSE maxResponsesToReturn
        bytesPerEntry == r.payloadSize + META_STORAGE_BYTES
        maxFromBytes == IF bytesPerEntry # 0 THEN maxBytes \div bytesPerEntry ELSE 0
    IN IF maxBytes > 0
       THEN IF maxFromBytes = 0 THEN 0
            ELSE IF maxFromBytes < numResponses THEN maxFromBytes ELSE numResponses
       ELSE numResponses

TailIdx_NoCount(r, startIdx) == (r.headIdx + startIdx) % r.maxEntries

\* get: tailIdx = (_headIdx + _maxEntries - _count + startIdx) % _maxEntries
TailIdx(r, startIdx) == (r.headIdx + r.maxEntries - r.count + startIdx) % r.maxEntries

SeqStart_FromZero(r, startIdx) == startIdx

\* get: seqStart = (_nextSeq > _count) ? (_nextSeq - _count + startIdx) : startIdx
SeqStart(r, startIdx) ==
    IF r.nextSeq > r.count THEN r.nextSeq - r.count + startIdx ELSE startIdx

\* get: the OfflineDataMeta of the entry in slot idx, the i-th returned
MetaOf(r, idx, seq) ==
    LET ts == TsVal(r, r.ringBuffer[idx + 1])
        tsResolutionMs == r.timestampResolutionUs \div 1000
        adjustedTsMs == r.adjTimestampMs[idx + 1]
        tsComponentMs == IF tsResolutionMs # 0 THEN W(ts * tsResolutionMs) ELSE W(0)
    IN [seq |-> seq, ts |-> ts,
        tsBaseMs |-> IF WLe(tsComponentMs, adjustedTsMs)
                     THEN WSub(adjustedTsMs, tsComponentMs) ELSE W(0)]

EffectiveStartIdx_Kept(consumeEntries, startIdx) == startIdx

\* get: if ((consumeEntries) && (startIdx > 0)) startIdx = 0;
EffectiveStartIdx(consumeEntries, startIdx) ==
    IF consumeEntries /\ startIdx > 0 THEN 0 ELSE startIdx

\* uint32_t get(data, responseSize, maxResponsesToReturn, metas, consumeEntries,
\*              startIdx, maxBytes): n is the return value, data the payloads
\* returned (the code concatenates them, responseSize bytes each)
ODS_get(r, maxResponsesToReturn, consumeEntries, startIdxIn, maxBytes) ==
    IF ~isConfigured(r) THEN [n |-> 0, data |-> <<>>, metas |-> <<>>, st |-> r]
    ELSE
    LET startIdx == EffectiveStartIdx(consumeEntries, startIdxIn)
        numResponses == NumResponses(r, maxResponsesToReturn, startIdx, maxBytes)
        tailIdx == TailIdx(r, startIdx)
        seqStart == SeqStart(r, startIdx)
        slot(i) == (tailIdx + i) % r.maxEntries
    IN [n |-> numResponses,
        data |-> [i \in 1..numResponses |-> r.ringBuffer[slot(i - 1) + 1]],
        metas |-> [i \in 1..numResponses |-> MetaOf(r, slot(i - 1), seqStart + (i - 1))],
        st |-> IF consumeEntries THEN [r EXCEPT !.count = r.count - numResponses]
               ELSE r]

\* bool consume(uint32_t numResponses)
ODS_consume(r, numResponses) ==
    IF ~isConfigured(r) THEN [ok |-> FALSE, st |-> r]
    ELSE [ok |-> TRUE,
          st |-> [r EXCEPT !.count = r.count -
                     (IF numResponses > r.count THEN r.count ELSE numResponses)]]

\* OfflineDataStats getStats() const  (the fields the properties read)
ODS_getStats(r) ==
    IF ~isConfigured(r)
    THEN [depth |-> 0, drops |-> 0, maxEntries |-> 0, payloadSize |-> 0,
          metaSize |-> 0, tsWrapCount |-> 0, firstSeq |-> 0, oldestCaptureMs |-> W(0)]
    ELSE [depth |-> r.count, drops |-> r.drops, maxEntries |-> r.maxEntries,
          payloadSize |-> r.payloadSize, metaSize |-> META_STORAGE_BYTES,
          tsWrapCount |-> r.tsWrapCount,
          firstSeq |-> IF r.nextSeq > r.count THEN r.nextSeq - r.count ELSE 0,
          oldestCaptureMs |-> IF r.count > 0
                              THEN r.adjTimestampMs[((r.headIdx + r.maxEntries - r.count)
                                                        % r.maxEntries) + 1]
                              ELSE W(0)]

----------------------------------------------------------------------------
(* DeviceStatus: sequence counter, pause flags, partial poll, ring *)

\* The member initialisers of DeviceStatus, with the fields of its
\* DevicePollingInfo that storePollResults and getPendingIdentPollInfo use
\* (pollReqs is the number of poll requests of the device type).  The
\* PollDataAggregator is an object of its own: what is put to it is part of
\* storePollResults' result (aggregated), not of this record.
DeviceStatusDefault ==
    [offlineSeq |-> 0, offlineBufferPaused |-> FALSE, offlineDrainPaused |-> FALSE,
     pollDataResult |-> <<>>, partialPollNextReqIdx |-> 0,
     partialPollPauseAfterSendMs |-> 0,
     lastPollTimeUs |-> 0, pollIntervalUs |-> 0, pollReqs |-> 0]

\* Raft::isTimeout(curTime, lastTime, maxDuration) for times that have not
\* wrapped: the duration has passed
isTimeout(curTime, lastTime, maxDuration) == curTime - lastTime >= maxDuration

CallIntervalUs_AlwaysPause(d) == d.partialPollPauseAfterSendMs * 1000

\* getPendingIdentPollInfo: isStartOfPoll ? pollIntervalUs
\*                                       : partialPollPauseAfterSendMs * 1000
CallIntervalUs(d) ==
    IF d.partialPollNextReqIdx = 0 THEN d.pollIntervalUs
    ELSE d.partialPollPauseAfterSendMs * 1000

\* bool DeviceStatus::getPendingIdentPollInfo(timeNowUs, pollInfo): pending is
\* the return value, isStartOfPoll what the request returned is (the start of
\* a poll or the next fragment), st the device afterwards
getPendingIdentPollInfo(d, now) ==
    LET d1 == IF d.lastPollTimeUs = 0 THEN [d EXCEPT !.lastPollTimeUs = now] ELSE d
        isStartOfPoll == d1.partialPollNextReqIdx = 0
    IN IF isTimeout(now, d1.lastPollTimeUs, CallIntervalUs(d1))
       THEN [pending |-> d1.pollReqs # 0, isStartOfPoll |-> isStartOfPoll,
             st |-> [d1 EXCEPT !.lastPollTimeUs = now]]
       ELSE [pending |-> FALSE, isStartOfPoll |-> isStartOfPoll, st |-> d1]

\* DevicePollingInfo::recordPartialPollResult
recordPartialPollResult(d, nextReqIdx, pollResult, pauseAfterSendMs) ==
    [d EXCEPT !.pollDataResult = d.pollDataResult \o pollResult,
              !.partialPollNextReqIdx = nextReqIdx,
              !.partialPollPauseAfterSendMs = pauseAfterSendMs]

\* DevicePollingInfo::getPartialPollResultsAndClear: whether there was a
\* partial result, the result, and the polling info afterwards
getPartialPollResultsAndClear(d) ==
    [found |-> d.pollDataResult # <<>>,
     partialPollResult |-> d.pollDataResult,
     st |-> [d EXCEPT !.pollDataResult = <<>>, !.partialPollNextReqIdx = 0]]

SeqAfterStore_Same(d) == d.offlineSeq

\* storePollResults: uint32_t seq = _offlineSeq++;
SeqAfterStore(d) == d.offlineSeq + 1

\* storePollResults: if (offlineData.isConfigured() && !_offlineBufferPaused)
BuffersResult(d, r) == isConfigured(r) /\ ~d.offlineBufferPaused

\* storePollResults: the completed result goes to the aggregator
\* (dataAggregator.put) and, with the next sequence number, to the ring
StoreComplete(d, r, timeNowUs, result) ==
    LET seq == d.offlineSeq
        d1 == [d EXCEPT !.offlineSeq = SeqAfterStore(d)]
        res == IF BuffersResult(d, r) THEN ODS_put(r, timeNowUs, seq, result)
               ELSE [ok |-> FALSE, st |-> r]
    IN [dev |-> d1, ring |-> res.st, aggregated |-> <<result>>,
        stored |-> res.ok, seq |-> seq, data |-> result]

\* bool DeviceStatus::storePollResults(nextReqIdx, timeNowUs, pollResult,
\*                                     pPollInfo, pauseAfterSendMs)
storePollResults(d, r, nextReqIdx, timeNowUs, pollResult, pauseAfterSendMs) ==
    IF nextReqIdx # 0
    THEN [dev |-> recordPartialPollResult(d, nextReqIdx, pollResult, pauseAfterSendMs),
          ring |-> r, aggregated |-> <<>>, stored |-> FALSE, seq |-> 0, data |-> <<>>]
    ELSE LET p == getPartialPollResultsAndClear(d) IN
         IF p.found
         THEN StoreComplete(p.st, r, timeNowUs, p.partialPollResult \o pollResult)
         ELSE StoreComplete(p.st, r, timeNowUs, pollResult)

\* void clearOfflineBuffer()
clearOfflineBuffer(d, r) == [dev |-> [d EXCEPT !.offlineSeq = 0], ring |-> ODS_clear(r)]

\* void setOfflineBufferPaused(bool paused)
setOfflineBufferPaused(d, paused) == [d EXCEPT !.offlineBufferPaused = paused]

\* void setOfflineDrainPaused(bool paused)
setOfflineDrainPaused(d, paused) == [d EXCEPT !.offlineDrainPaused = paused]

\* void setOfflineSeq(uint32_t nextSeq)
setOfflineSeq(d, nextSeq) == [d EXCEPT !.offlineSeq = nextSeq]

\* void DeviceStatus::configureOfflineBuffer(maxEntries, payloadSize,
\*                                           timestampBytes, timestampResolutionUs)
configureOfflineBuffer(d, maxEntries, payloadSize, timestampBytes, timestampResolutionUs) ==
    [dev |-> d,
     ring |-> ODS_init(maxEntries, payloadSize, timestampBytes, timestampResolutionUs)]

getOfflineResponses_IgnoresPause(d, r, maxResponsesToReturn) ==
    IF ~isConfigured(r)
    THEN [n |-> 0, data |-> <<>>, metas |-> <<>>, st |-> r]
    ELSE ODS_get(r, maxResponsesToReturn, TRUE, 0, 0)

\* uint32_t DeviceStatus::getOfflineResponses(data, responseSize,
\*                                            maxResponsesToReturn, metas)
getOfflineResponses(d, r, maxResponsesToReturn) ==
    IF d.offlineDrainPaused \/ ~isConfigured(r)
    THEN [n |-> 0, data |-> <<>>, metas |-> <<>>, st |-> r]
    ELSE ODS_get(r, maxResponsesToReturn, TRUE, 0, 0)

peekOfflineResponses_Consuming(d, r, startIdx, maxResponsesToReturn, maxBytes) ==
    ODS_get(r, maxResponsesToReturn, TRUE, startIdx, maxBytes)

\* uint32_t DeviceStatus::peekOfflineResponses(data, responseSize, startIdx,
\*                                 maxResponsesToReturn, maxBytes, metas)
peekOfflineResponses(d, r, startIdx, maxResponsesToReturn, maxBytes) ==
    IF ~isConfigured(r)
    THEN [n |-> 0, data |-> <<>>, metas |-> <<>>, st |-> r]
    ELSE ODS_get(r, maxResponsesToReturn, FALSE, startIdx, maxBytes)

\* OfflineDataStats DeviceStatus::getOfflineStats() const
getOfflineStats(r) == ODS_getStats(r)

----------------------------------------------------------------------------
(* OfflineDataStoreNVS: the persistent ring (ESP_PLATFORM build)            *)
(* The NVS namespace is kv: the "meta" blob (<<>> when the key is absent)   *)
(* and the segment blobs by segment index.  A blob is a byte string of len  *)
(* bytes, held as the bytes at the offsets that were written (every other   *)
(* byte of a segment is 0).  The NVS calls themselves succeed.  Sequence    *)
(* numbers and timestamps stay far below 2^31.                              *)

OFFLINE_NVS_META_MAGIC == 1329745494
OFFLINE_NVS_META_VERSION == 2
OFFLINE_NVS_SEGMENT_BYTES == 4000

\* sizeof(uint32_t): the adjusted timestamp in front of each record
NVS_TS_BYTES == 4

\* struct OfflineNvsMeta with its member initialisers
OfflineNvsMetaDefault ==
    [magic |-> 0, version |-> 0, payloadSize |-> 0, recordSize |-> 0,
     timestampBytes |-> 0, timestampResolutionUs |-> 0, maxEntries |-> 0,
     head |-> 0, count |-> 0, nextSeq |-> 0, importSeq |-> 0,
     recordsPerSegment |-> 0, segmentBytes |-> 0, drops |-> 0]

\* The members of a newly constructed OfflineDataStoreNVS
NVS_default ==
    [ready |-> FALSE, metaValid |-> FALSE, meta |-> OfflineNvsMetaDefault,
     effectiveMaxEntries |-> 0]

\* An erased namespace
KvEmpty == [meta |-> <<>>, seg |-> <<>>]

\* Raft::setLEUInt32: the four bytes of a uint32_t, least significant first
LEUInt32(val) ==
    <<val % 256, (val \div 256) % 256, (val \div 65536) % 256,
      (val \div 16777216) % 256>>

\* Raft::getLEUInt32AndInc on four bytes
getLEUInt32(b) == b[1] + 256 * b[2] + 65536 * b[3] + 16777216 * b[4]

\* A zero-filled segment buffer of len bytes
ZeroBlob(len) == [len |-> len, bytes |-> <<>>]

\* The n bytes of a blob from offset off (0-based)
BlobRead(blob, off, n) ==
    [i \in 1..n |-> IF (off + i - 1) \in DOMAIN blob.bytes
                    THEN blob.bytes[off + i - 1] ELSE 0]

\* The blob with the bytes data written from offset off
BlobWrite(blob, off, data) ==
    [blob EXCEPT !.bytes =
        [j \in (DOMAIN blob.bytes) \cup (off..(off + Len(data) - 1)) |->
            IF j >= off /\ j < off + Len(data) THEN data[j - off + 1]
            ELSE blob.bytes[j]]]

\* void resetMeta(payloadSize, timestampBytes, timestampResolutionUs, maxEntries)
NVS_resetMeta(payloadSize, timestampBytes, timestampResolutionUs, maxEntries) ==
    LET recordSize == payloadSize + NVS_TS_BYTES IN
    [magic |-> OFFLINE_NVS_META_MAGIC, version |-> OFFLINE_NVS_META_VERSION,
     payloadSize |-> payloadSize, recordSize |-> recordSize,
     timestampBytes |-> timestampBytes,
     timestampResolutionUs |-> timestampResolutionUs,
     maxEntries |-> maxEntries, head |-> 0, count |-> 0, nextSeq |-> 0,
     importSeq |-> 0,
     recordsPerSegment |-> IF recordSize # 0
                           THEN OFFLINE_NVS_SEGMENT_BYTES \div recordSize ELSE 0,
     segmentBytes |-> OFFLINE_NVS_SEGMENT_BYTES, drops |-> 0]

\* The operations below work on w = [kv, o]: the namespace and the object.

\* void clear(): nvs_erase_all, nvs_commit, _metaValid = _ready = false
NVS_clear(w) ==
    [kv |-> KvEmpty, o |-> [w.o EXCEPT !.metaValid = FALSE, !.ready = FALSE]]

\* loadMeta: _metaValid = (magic == MAGIC) && (version == VERSION)
MetaLoads(m) ==
    m.magic = OFFLINE_NVS_META_MAGIC /\ m.version = OFFLINE_NVS_META_VERSION

\* bool loadMeta(): nvs_get_blob reads the stored blob into _meta
NVS_loadMeta(w) ==
    IF w.kv.meta = <<>>
    THEN [ok |-> FALSE, w |-> [w EXCEPT !.o.metaValid = FALSE]]
    ELSE LET m == w.kv.meta[1] IN
         [ok |-> MetaLoads(m),
          w |-> [w EXCEPT !.o.meta = m, !.o.metaValid = MetaLoads(m)]]

\* bool saveMeta(): nvs_set_blob("meta") and nvs_commit
NVS_saveMeta(w) == [w EXCEPT !.kv.meta = <<w.o.meta>>]

\* bool readSegment(segIdx, outBuf): false when the key is absent or the blob
\* has another length than outBuf
NVS_readSegment(kv, segIdx, len) ==
    IF segIdx \in DOMAIN kv.seg /\ kv.seg[segIdx].len = len
    THEN [ok |-> TRUE, buf |-> kv.seg[segIdx]]
    ELSE [ok |-> FALSE, buf |-> ZeroBlob(len)]

\* bool writeSegment(segIdx, data, len): nvs_set_blob of the segment key
NVS_writeSegment(kv, segIdx, blob) ==
    [kv EXCEPT !.seg = [i \in (DOMAIN kv.seg) \cup {segIdx} |->
                           IF i = segIdx THEN blob ELSE kv.seg[i]]]

MetaCompatible_PayloadOnly(m, payloadSize, timestampBytes, timestampResolutionUs) ==
    /\ m.magic = OFFLINE_NVS_META_MAGIC
    /\ m.version = OFFLINE_NVS_META_VERSION
    /\ m.payloadSize = payloadSize
    /\ m.recordSize = payloadSize + NVS_TS_BYTES

MetaCompatible_Never(m, payloadSize, timestampBytes, timestampResolutionUs) == FALSE

\* configure: bool metaCompatible
MetaCompatible(m, payloadSize, timestampBytes, timestampResolutionUs) ==
    /\ m.magic = OFFLINE_NVS_META_MAGIC
    /\ m.version = OFFLINE_NVS_META_VERSION
    /\ m.payloadSize = payloadSize
    /\ m.timestampBytes = timestampBytes
    /\ m.timestampResolutionUs = timestampResolutionUs
    /\ m.recordSize = payloadSize + NVS_TS_BYTES
    /\ m.recordsPerSegment > 0
    /\ m.segmentBytes > 0

\* configure: resetMeta, then saveMeta unless recordsPerSegment == 0
ResetAndSave(w, payloadSize, timestampBytes, timestampResolutionUs, maxEntries) ==
    LET w1 == [w EXCEPT !.o.meta = NVS_resetMeta(payloadSize, timestampBytes,
                                        timestampResolutionUs, maxEntries)]
    IN IF w1.o.meta.recordsPerSegment = 0
       THEN [ok |-> FALSE, w |-> w1]
       ELSE [ok |-> TRUE, w |-> NVS_saveMeta(w1)]

\* configure: _ready = true; _metaValid = true; _effectiveMaxEntries = _meta.maxEntries
MadeReady(w) ==
    [w EXCEPT !.o.ready = TRUE, !.o.metaValid = TRUE,
              !.o.effectiveMaxEntries = w.o.meta.maxEntries]

\* bool configure(nvsNamespace, payloadSize, timestampBytes,
\*                timestampResolutionUs, maxEntries), the namespace given
NVS_configure(w, payloadSize, timestampBytes, timestampResolutionUs, maxEntries) ==
    IF payloadSize = 0 \/ maxEntries = 0 THEN [ok |-> FALSE, w |-> w]
    ELSE
    LET l == NVS_loadMeta(w)
        rs == IF ~l.ok
              THEN ResetAndSave(l.w, payloadSize, timestampBytes,
                                timestampResolutionUs, maxEntries)
              ELSE IF ~MetaCompatible(l.w.o.meta, payloadSize, timestampBytes,
                                      timestampResolutionUs)
              THEN ResetAndSave(NVS_clear(l.w), payloadSize, timestampBytes,
                                timestampResolutionUs, maxEntries)
              ELSE [ok |-> TRUE, w |-> l.w]
    IN IF rs.ok THEN [ok |-> TRUE, w |-> MadeReady(rs.w)] ELSE rs

\* void setEffectiveMaxEntries(maxEntries)
NVS_setEffectiveMaxEntries(w, maxEntries) ==
    IF ~w.o.metaValid THEN w
    ELSE
    LET eff == IF maxEntries = 0 \/ maxEntries > w.o.meta.maxEntries
               THEN w.o.meta.maxEntries ELSE maxEntries
        w1 == [w EXCEPT !.o.effectiveMaxEntries = eff]
    IN IF w1.o.meta.count > eff
       THEN NVS_saveMeta([w1 EXCEPT !.o.meta.drops = @ + (w1.o.meta.count - eff),
                                    !.o.meta.count = eff])
       ELSE w1

\* The key-value writes of an operation, in program order, and their effect
KvErase == [k |-> "erase_all"]
KvSetMeta(m) == [k |-> "meta", m |-> m]
KvSetSeg(segIdx, blob) == [k |-> "seg", segIdx |-> segIdx, blob |-> blob]

KvApply(kv, wr) ==
    IF wr.k = "erase_all" THEN KvEmpty
    ELSE IF wr.k = "meta" THEN [kv EXCEPT !.meta = <<wr.m>>]
    ELSE NVS_writeSegment(kv, wr.segIdx, wr.blob)

RECURSIVE KvApplyAll(_, _)
KvApplyAll(kv, writes) ==
    IF writes = <<>> THEN kv
    ELSE KvApplyAll(KvApply(kv, Head(writes)), Tail(writes))

\* appendBatch: no segment buffered yet (currentSegIdx = UINT32_MAX)
NoSeg == -1

FlushSeg_Never(l) == l

\* appendBatch: the flushSeg lambda on the loop state l
FlushSeg(l) ==
    IF l.currentSegIdx = NoSeg \/ ~l.segDirty THEN l
    ELSE [l EXCEPT !.kv = NVS_writeSegment(l.kv, l.currentSegIdx, l.segBuf),
                   !.writes = Append(l.writes, KvSetSeg(l.currentSegIdx, l.segBuf)),
                   !.segDirty = FALSE]

\* appendBatch: the record of entry ii (0-based), LE timestamp then payload
RecordOf(payloads, payloadSize, adjTsMs, ii) ==
    LEUInt32(adjTsMs[ii + 1]) \o
    SubSeq(payloads, ii * payloadSize + 1, (ii + 1) * payloadSize)

CountAfterAppend_NoCap(m, effectiveMaxEntries) == m.count + 1

\* appendBatch: if (_meta.count < effectiveMaxEntries) _meta.count++;
CountAfterAppend(m, effectiveMaxEntries) ==
    IF m.count < effectiveMaxEntries THEN m.count + 1 ELSE m.count

\* appendBatch: one pass of the loop body for entry ii
AppendOne(l, payloads, payloadSize, adjTsMs, firstSeq, effectiveMaxEntries, ii) ==
    LET m == l.meta
        seq == firstSeq + ii
        writeIdx == m.head
        segIdx == writeIdx \div m.recordsPerSegment
        segOffset == (writeIdx % m.recordsPerSegment) * m.recordSize
        segmentBytes == m.recordsPerSegment * m.recordSize
        l1 == IF segIdx # l.currentSegIdx
              THEN LET f == FlushSeg(l) IN
                   [f EXCEPT !.currentSegIdx = segIdx,
                             !.segBuf = NVS_readSegment(f.kv, segIdx, segmentBytes).buf]
              ELSE l
    IN [l1 EXCEPT
          !.segBuf = BlobWrite(l1.segBuf, segOffset,
                               RecordOf(payloads, payloadSize, adjTsMs, ii)),
          !.segDirty = TRUE,
          !.meta = [m EXCEPT !.head = (m.head + 1) % m.maxEntries,
                             !.count = CountAfterAppend(m, effectiveMaxEntries),
                             !.drops = IF m.count < effectiveMaxEntries
                                       THEN m.drops ELSE m.drops + 1,
                             !.nextSeq = seq + 1],
          !.outLastSeq = seq]

\* appendBatch: for (ii = from; ii < count; ii++)
RECURSIVE AppendLoop(_, _, _, _, _, _, _, _)
AppendLoop(l, payloads, payloadSize, adjTsMs, firstSeq, effectiveMaxEntries, ii, count) ==
    IF ii >= count THEN l
    ELSE AppendLoop(AppendOne(l, payloads, payloadSize, adjTsMs, firstSeq,
                              effectiveMaxEntries, ii),
                    payloads, payloadSize, adjTsMs, firstSeq, effectiveMaxEntries,
                    ii + 1, count)

SkipCount_None(m, firstSeq) == 0

\* appendBatch: skip = _meta.nextSeq - firstSeq when firstSeq < _meta.nextSeq
SkipCount(m, firstSeq) == IF firstSeq < m.nextSeq THEN m.nextSeq - firstSeq ELSE 0

IsSeqGap_Never(m, firstSeq) == FALSE

\* appendBatch: else if (firstSeq > _meta.nextSeq), reached when count != 0
IsSeqGap(m, firstSeq) == m.count # 0 /\ firstSeq > m.nextSeq

\* bool appendBatch(payloads, payloadSize, adjTsMs, firstSeq, count, outLastSeq):
\* ok the return value, w the namespace and object afterwards, writes the
\* key-value writes made, in order
NVS_appendBatch(w, payloads, payloadSize, adjTsMs, firstSeq, count) ==
    LET rejected == [ok |-> FALSE, outLastSeq |-> 0, w |-> w, writes |-> <<>>]
        effectiveMaxEntries == IF w.o.effectiveMaxEntries > 0
                               THEN w.o.effectiveMaxEntries ELSE w.o.meta.maxEntries
    IN
    IF ~w.o.ready \/ ~w.o.metaValid THEN rejected
    ELSE IF payloadSize # w.o.meta.payloadSize THEN rejected
    ELSE IF count = 0 \/ Len(adjTsMs) < count THEN rejected
    ELSE IF Len(payloads) < count * payloadSize THEN rejected
    ELSE IF effectiveMaxEntries = 0 THEN rejected
    ELSE
    LET isGap == IsSeqGap(w.o.meta, firstSeq)
        resetM == NVS_resetMeta(payloadSize, w.o.meta.timestampBytes,
                                w.o.meta.timestampResolutionUs, w.o.meta.maxEntries)
        \* the meta, the namespace and the writes made when the loop is reached
        m0 == IF w.o.meta.count = 0 THEN [w.o.meta EXCEPT !.nextSeq = firstSeq]
              ELSE IF isGap THEN [resetM EXCEPT !.nextSeq = firstSeq]
              ELSE w.o.meta
        kv0 == IF isGap THEN [KvEmpty EXCEPT !.meta = <<resetM>>] ELSE w.kv
        writes0 == IF isGap THEN <<KvErase, KvSetMeta(resetM)>> ELSE <<>>
        o0 == [w.o EXCEPT !.meta = m0, !.metaValid = TRUE, !.ready = TRUE]
    IN
    IF isGap /\ resetM.recordsPerSegment = 0
    THEN [ok |-> FALSE, outLastSeq |-> 0,
          w |-> [kv |-> KvEmpty, o |-> [o0 EXCEPT !.meta = resetM]],
          writes |-> <<KvErase>>]
    ELSE IF SkipCount(m0, firstSeq) >= count
    THEN [ok |-> TRUE,
          outLastSeq |-> IF m0.nextSeq > 0 THEN m0.nextSeq - 1 ELSE 0,
          w |-> [kv |-> kv0, o |-> o0], writes |-> writes0]
    ELSE
    LET skip == SkipCount(m0, firstSeq)
        l0 == [kv |-> kv0, meta |-> m0,
               segBuf |-> ZeroBlob(m0.recordsPerSegment * m0.recordSize),
               currentSegIdx |-> NoSeg, segDirty |-> FALSE,
               writes |-> writes0, outLastSeq |-> 0]
        l1 == FlushSeg(AppendLoop(l0, payloads, payloadSize, adjTsMs, firstSeq,
                                  effectiveMaxEntries, skip, count))
    IN [ok |-> TRUE, outLastSeq |-> l1.outLastSeq,
        w |-> [kv |-> [l1.kv EXCEPT !.meta = <<l1.meta>>],
               o |-> [o0 EXCEPT !.meta = l1.meta]],
        writes |-> Append(l1.writes, KvSetMeta(l1.meta))]

\* appendBatch when the f-th of its key-value writes fails (nvs_set_blob or
\* nvs_commit returns an error, the value is not stored): the writes before
\* it are made, false is returned, and _meta is as the code had set it when
\* it returned.  f counts writeSegment and saveMeta calls; the erase of
\* clear() is not checked by the code.
NVS_appendBatchWriteFails(w, payloads, payloadSize, adjTsMs, firstSeq, count, f) ==
    LET res == NVS_appendBatch(w, payloads, payloadSize, adjTsMs, firstSeq, count)
        made == KvApplyAll(w.kv, SubSeq(res.writes, 1, f - 1))
        \* the batch cut before the entry whose segment change flushes write f
        cut(c) == NVS_appendBatch(w, payloads, payloadSize, adjTsMs, firstSeq, c)
        upTo == CHOOSE c \in 1..count :
                    /\ Len(cut(c).writes) = f + 1
                    /\ \A c2 \in (c + 1)..count : Len(cut(c2).writes) # f + 1
    IN IF res.writes[f].k = "meta" /\ f < Len(res.writes)
       THEN \* saveMeta after clear() and resetMeta on a sequence gap
            [ok |-> FALSE,
             w |-> [kv |-> made,
                    o |-> [w.o EXCEPT !.meta = res.writes[f].m,
                                      !.metaValid = TRUE, !.ready = TRUE]]]
       ELSE IF f = Len(res.writes)
       THEN \* return saveMeta()
            [ok |-> FALSE, w |-> [kv |-> made, o |-> res.w.o]]
       ELSE \* flushSeg at a segment change or after the loop
            [ok |-> FALSE, w |-> [kv |-> made, o |-> cut(upTo).w.o]]

\* appendBatch when readSegment fails for the segments in unreadable although
\* they are stored (nvs_get_blob returns an error other than NOT_FOUND):
\* readSegment returns false as for an absent key, the buffer is zero-filled,
\* and the writes go to the namespace as it is
NVS_appendBatchReadFails(w, payloads, payloadSize, adjTsMs, firstSeq, count, unreadable) ==
    LET seen == [w EXCEPT !.kv.seg = [i \in (DOMAIN w.kv.seg) \ unreadable |->
                                          w.kv.seg[i]]]
        res == NVS_appendBatch(seen, payloads, payloadSize, adjTsMs, firstSeq, count)
    IN [res EXCEPT !.w.kv = KvApplyAll(w.kv, res.writes)]

\* importTo: the stored sequence numbers start here
FirstSeqInStore(m) == IF m.nextSeq >= m.count THEN m.nextSeq - m.count ELSE 0

StartSeq_FromImportSeq(m) ==
    IF m.importSeq < FirstSeqInStore(m) THEN FirstSeqInStore(m) ELSE m.importSeq

\* importTo: startSeq = importSeq + 1, raised to firstSeqInStore
StartSeq(m) ==
    IF m.importSeq + 1 < FirstSeqInStore(m) THEN FirstSeqInStore(m)
    ELSE m.importSeq + 1

\* importTo: maxEntries = dest.getMaxEntries(), lowered to importMaxEntries
ImportLimit(r, importMaxEntries) ==
    IF importMaxEntries > 0 /\ importMaxEntries < r.maxEntries
    THEN importMaxEntries ELSE r.maxEntries

ImportSeqAfter_First(firstSeq, importCount) == firstSeq

\* importTo: _meta.importSeq = firstSeq + importCount - 1
ImportSeqAfter(firstSeq, importCount) == firstSeq + importCount - 1

\* importTo: one pass of the loop body for entry ii, on the loop state l
\* (dest the RAM ring, puts the put calls made, failed a readSegment failure)
ImportOne(l, kv, m, startIdx, firstSeq, ii) ==
    LET recordIdx == (startIdx + ii) % m.maxEntries
        segIdx == recordIdx \div m.recordsPerSegment
        segOffset == (recordIdx % m.recordsPerSegment) * m.recordSize
        rd == NVS_readSegment(kv, segIdx, m.recordsPerSegment * m.recordSize)
        adjTsMs == getLEUInt32(BlobRead(rd.buf, segOffset, NVS_TS_BYTES))
        record == BlobRead(rd.buf, segOffset + NVS_TS_BYTES, m.payloadSize)
        timeNowUs == IF ii = 0 THEN adjTsMs * 1000 ELSE 0
        p == ODS_put(l.dest, timeNowUs, firstSeq + ii, record)
    IN IF l.failed \/ ~rd.ok THEN [l EXCEPT !.failed = TRUE]
       ELSE [l EXCEPT !.dest = p.st,
                      !.puts = Append(l.puts, [timeNowUs |-> timeNowUs,
                                               seq |-> firstSeq + ii,
                                               data |-> record, ok |-> p.ok])]

\* importTo: for (ii = 0; ii < importCount; ii++)
RECURSIVE ImportLoop(_, _, _, _, _, _, _)
ImportLoop(l, kv, m, startIdx, firstSeq, ii, importCount) ==
    IF ii >= importCount \/ l.failed THEN l
    ELSE ImportLoop(ImportOne(l, kv, m, startIdx, firstSeq, ii),
                    kv, m, startIdx, firstSeq, ii + 1, importCount)

\* bool importTo(dest, importMaxEntries, outNextSeq): ok the return value,
\* w the namespace and object afterwards, dest the RAM ring afterwards, puts
\* the dest.put calls made, in order
NVS_importTo(w, r, importMaxEntries) ==
    LET m == w.o.meta
        none(ok, outNextSeq) == [ok |-> ok, outNextSeq |-> outNextSeq, w |-> w,
                                 dest |-> r, puts |-> <<>>]
    IN
    IF ~w.o.ready \/ ~w.o.metaValid THEN none(FALSE, 0)
    ELSE IF m.count = 0 THEN none(FALSE, m.nextSeq)
    ELSE
    LET firstSeqInStore == FirstSeqInStore(m)
        startSeq == StartSeq(m)
        maxEntries == ImportLimit(r, importMaxEntries)
        available == m.nextSeq - startSeq
        importCount == IF available < maxEntries THEN available ELSE maxEntries
        tail == (m.head + m.maxEntries - m.count) % m.maxEntries
        startIdx == (tail + (startSeq - firstSeqInStore)) % m.maxEntries
        l == ImportLoop([dest |-> r, puts |-> <<>>, failed |-> FALSE],
                        w.kv, m, startIdx, startSeq, 0, importCount)
        w1 == [w EXCEPT !.o.meta.importSeq = ImportSeqAfter(startSeq, importCount)]
    IN
    IF startSeq >= m.nextSeq THEN none(TRUE, m.nextSeq)
    ELSE IF maxEntries = 0 THEN none(FALSE, m.nextSeq)
    ELSE IF importCount = 0 THEN none(FALSE, m.nextSeq)
    ELSE IF l.failed
    THEN [ok |-> FALSE, outNextSeq |-> m.nextSeq, w |-> w, dest |-> l.dest,
          puts |-> l.puts]
    ELSE [ok |-> TRUE, outNextSeq |-> m.nextSeq, w |-> NVS_saveMeta(w1),
          dest |-> l.dest, puts |-> l.puts]

\* bool isReady() const, uint32_t getCount() const, uint32_t getNextSeq() const
NVS_isReady(w) == w.o.ready /\ w.o.metaValid
NVS_getCount(w) == IF w.o.metaValid THEN w.o.meta.count ELSE 0
NVS_getNextSeq(w) == IF w.o.metaValid THEN w.o.meta.nextSeq ELSE 0

----------------------------------------------------------------------------
(* The ring driven directly: inputs and actions *)

\* Configurations given to init: capacity 1..MaxRingEntries, a timestamp of 1,
\* 2 or 4 bytes followed by one data byte, millisecond resolution
Configs ==
    [maxEntries : 1..MaxRingEntries, timestampBytes : {1, 2, 4},
     timestampResolutionUs : {1000}]

\* Raw device timestamps tried for each timestamp width (as 32-bit values in
\* two 16-bit halves); each set holds values on both sides of a wrap
RawTs(timestampBytes) ==
    IF timestampBytes = 1 THEN {W(0), W(200), W(255)}
    ELSE IF timestampBytes = 2 THEN {W(500), W(60000), W(65535)}
    ELSE {W(65535), W(65536), W(65537)}

\* The big-endian bytes of a raw timestamp
BE(ts, timestampBytes) ==
    IF timestampBytes = 1 THEN <<ts.lo % TwoTo8>>
    ELSE IF timestampBytes = 2 THEN <<ts.lo \div TwoTo8, ts.lo % TwoTo8>>
    ELSE <<ts.hi \div TwoTo8, ts.hi % TwoTo8, ts.lo \div TwoTo8, ts.lo % TwoTo8>>

\* A poll result: the timestamp, then a data byte that numbers the put
Payload(ts, timestampBytes, tag) == BE(ts, timestampBytes) \o <<tag>>

\* Capture time (us) passed to put: 1000 ms, above some raw timestamps and
\* below others
TimesUs == {1000000}

\* First sequence numbers passed to put
StartSeqs == {0, 10}

\* Sequence numbers are consecutive from the first one
NextSeqs == IF putLog = <<>> THEN StartSeqs ELSE {putLog[Len(putLog)].seq + 1}

RingInit(c) ==
    /\ ring' = ODS_init(c.maxEntries, c.timestampBytes + 1, c.timestampBytes,
                        c.timestampResolutionUs)
    /\ putLog' = <<>>
    /\ drainLog' = <<>>
    /\ lastOp' = [op |-> "init", ok |-> TRUE]
    /\ UNCHANGED notRingVars

RingClear ==
    /\ ring' = ODS_clear(ring)
    /\ putLog' = <<>>
    /\ drainLog' = <<>>
    /\ lastOp' = [op |-> "clear", ok |-> TRUE]
    /\ UNCHANGED notRingVars

RingPut(timeNowUs, seq, data) ==
    /\ Len(putLog) < MaxPuts
    /\ LET res == ODS_put(ring, timeNowUs, seq, data) IN
       /\ ring' = res.st
       /\ putLog' = IF res.ok THEN Append(putLog, [seq |-> seq, data |-> data])
                    ELSE putLog
       /\ lastOp' = [op |-> "put", ok |-> res.ok]
    /\ UNCHANGED drainLog
    /\ UNCHANGED notRingVars

RingGet(maxResponsesToReturn, consumeEntries, startIdx, maxBytes) ==
    LET res == ODS_get(ring, maxResponsesToReturn, consumeEntries, startIdx, maxBytes) IN
    /\ ring' = res.st
    /\ drainLog' = IF consumeEntries
                   THEN drainLog \o [i \in 1..res.n |->
                                        [seq |-> res.metas[i].seq, data |-> res.data[i]]]
                   ELSE drainLog
    /\ lastOp' = [op |-> IF consumeEntries THEN "get" ELSE "peek",
                  ok |-> res.n > 0]
    /\ UNCHANGED putLog
    /\ UNCHANGED notRingVars

RingConsume(numResponses) ==
    LET res == ODS_consume(ring, numResponses) IN
    /\ ring' = res.st
    /\ lastOp' = [op |-> "consume", ok |-> res.ok]
    /\ UNCHANGED <<putLog, drainLog>>
    /\ UNCHANGED notRingVars

RingGetStats ==
    /\ lastOp' = [op |-> "getStats", ok |-> ODS_getStats(ring).maxEntries > 0]
    /\ UNCHANGED <<ring, putLog, drainLog>>
    /\ UNCHANGED notRingVars

\* Payloads offered to put: a well-formed one per raw timestamp
GoodPayloads ==
    {Payload(ts, ring.timestampBytes, Len(putLog) + 1) : ts \in RawTs(ring.timestampBytes)}

\* Two of them: the lowest and the highest raw timestamp
FewPayloads ==
    {d \in GoodPayloads :
        \/ \A e \in GoodPayloads : TsVal(ring, d) <= TsVal(ring, e)
        \/ \A e \in GoodPayloads : TsVal(ring, d) >= TsVal(ring, e)}

\* A payload one byte longer than the configured size
LongPayload == [b \in 1..(ring.payloadSize + 1) |-> 0]

\* Arguments of get: <<maxResponsesToReturn, consumeEntries, startIdx, maxBytes>>
GetArgs ==
    {<<0, TRUE, 0, 0>>, <<1, TRUE, 0, 0>>, <<2, TRUE, 1, 0>>,
     <<0, TRUE, 0, ring.payloadSize + META_STORAGE_BYTES>>,
     <<0, FALSE, 0, 0>>, <<1, FALSE, 1, 0>>, <<0, FALSE, 1, 3>>}

RingNext ==
    \/ \E c \in Configs : RingInit(c)
    \/ RingClear
    \/ \E t \in TimesUs, data \in FewPayloads \cup {LongPayload} :
          Len(putLog) < MaxPutsAllOps /\ RingPut(t, ring.nextSeq, data)
    \/ \E a \in GetArgs : RingGet(a[1], a[2], a[3], a[4])
    \/ \E n \in 1..2 : RingConsume(n)
    \/ RingGetStats

\* Puts and consuming gets only (a device buffering and draining)
DrainNext ==
    \/ \E t \in TimesUs, seq \in NextSeqs, data \in GoodPayloads : RingPut(t, seq, data)
    \/ \E m \in 0..2 : RingGet(m, TRUE, 0, 0)

----------------------------------------------------------------------------
(* The device driven through DeviceStatus: inputs and actions *)

\* The offline buffer of a device whose poll result is a 1-byte timestamp and
\* one data byte
DevConfigs ==
    [maxEntries : 1..MaxRingEntries, timestampBytes : {1}, timestampResolutionUs : {1000}]

\* The k-th poll result of a device: a timestamp (the same raw value for
\* every poll of the run) and a data byte that numbers the poll
DevPollResult(k) == Payload(W(7), 1, k)

\* A result arrives whole (the only fragment, nextReqIdx 0) or in two
\* fragments: first the timestamp (nextReqIdx 1), then the data byte.
\* The result a device delivers next:
DevWhole == DevPollResult(dev.offlineSeq + 1)

\* The bytes passed to storePollResults: the first fragment (nextReqIdx 1),
\* the rest of a result begun by a fragment, or the whole result
DevFragment(nextReqIdx) ==
    IF nextReqIdx # 0 THEN SubSeq(DevWhole, 1, 1)
    ELSE IF dev.pollDataResult # <<>> THEN SubSeq(DevWhole, 2, 2)
    ELSE DevWhole

\* The pause a device asks for after each fragment (pauseAfterSendMs)
PauseAfterSendMs == 5

DevStore(nextReqIdx) ==
    /\ dev.offlineSeq < MaxOfflineSeq
    /\ Len(putLog) < MaxDevPuts
    /\ LET res == storePollResults(dev, ring, nextReqIdx, 1000000,
                                   DevFragment(nextReqIdx), PauseAfterSendMs)
       IN /\ nextReqIdx # 0 => dev.pollDataResult = <<>>
          /\ dev' = res.dev
          /\ ring' = res.ring
          /\ putLog' = IF res.stored
                       THEN Append(putLog, [seq |-> res.seq, data |-> res.data])
                       ELSE putLog
          /\ UNCHANGED drainLog
    /\ UNCHANGED notDevVars

DevSetBufferPaused(paused) ==
    /\ dev' = setOfflineBufferPaused(dev, paused)
    /\ UNCHANGED <<ring, putLog, drainLog>>
    /\ UNCHANGED notDevVars

DevSetDrainPaused(paused) ==
    /\ dev' = setOfflineDrainPaused(dev, paused)
    /\ UNCHANGED <<ring, putLog, drainLog>>
    /\ UNCHANGED notDevVars

DevSetOfflineSeq(nextSeq) ==
    /\ dev' = setOfflineSeq(dev, nextSeq)
    /\ UNCHANGED <<ring, putLog, drainLog>>
    /\ UNCHANGED notDevVars

DevClear ==
    /\ LET res == clearOfflineBuffer(dev, ring) IN dev' = res.dev /\ ring' = res.ring
    /\ putLog' = <<>>
    /\ drainLog' = <<>>
    /\ UNCHANGED notDevVars

DevConfigure(c) ==
    /\ LET res == configureOfflineBuffer(dev, c.maxEntries, c.timestampBytes + 1,
                                         c.timestampBytes, c.timestampResolutionUs)
       IN dev' = res.dev /\ ring' = res.ring
    /\ putLog' = <<>>
    /\ drainLog' = <<>>
    /\ UNCHANGED notDevVars

DevGet(maxResponsesToReturn) ==
    /\ LET res == getOfflineResponses(dev, ring, maxResponsesToReturn) IN
       /\ ring' = res.st
       /\ drainLog' = drainLog \o [i \in 1..res.n |->
                                      [seq |-> res.metas[i].seq, data |-> res.data[i]]]
       /\ UNCHANGED <<dev, putLog>>
    /\ UNCHANGED notDevVars

DevPeek(startIdx, maxResponsesToReturn, maxBytes) ==
    /\ LET res == peekOfflineResponses(dev, ring, startIdx, maxResponsesToReturn, maxBytes) IN
       /\ ring' = res.st
       /\ UNCHANGED <<dev, putLog, drainLog>>
    /\ UNCHANGED notDevVars

DevNext ==
    \/ \E nextReqIdx \in 0..1 : DevStore(nextReqIdx)
    \/ \E paused \in BOOLEAN : DevSetBufferPaused(paused)
    \/ \E paused \in BOOLEAN : DevSetDrainPaused(paused)
    \/ \E nextSeq \in {0, MaxOfflineSeq - 1} : DevSetOfflineSeq(nextSeq)
    \/ DevClear
    \/ \E c \in DevConfigs : DevConfigure(c)
    \/ \E m \in 0..1 : DevGet(m)
    \/ \E startIdx \in 0..1 : DevPeek(startIdx, 1, 0)

----------------------------------------------------------------------------
(* The poll scheduler of a device: inputs and actions *)

\* Poll intervals of a device type (us): below and above the 5 ms pause that
\* DevStore asks for after a fragment
PollIntervalsUs == {3000, 7000}

\* A millisecond passes
Tick ==
    /\ clockUs < MaxTimeMs * 1000
    /\ clockUs' = clockUs + 1000
    /\ UNCHANGED <<dev, pollLog>>
    /\ UNCHANGED notPollVars

\* The bus asks for the pending poll request; a request returned is logged
\* with its time, its kind and the last poll time it was measured from
PollPending ==
    /\ LET res == getPendingIdentPollInfo(dev, clockUs) IN
       /\ dev' = res.st
       /\ pollLog' = IF res.pending
                     THEN Append(pollLog,
                                 [t |-> clockUs, isStartOfPoll |-> res.isStartOfPoll,
                                  since |-> IF dev.lastPollTimeUs = 0 THEN clockUs
                                            ELSE dev.lastPollTimeUs])
                     ELSE pollLog
    /\ UNCHANGED clockUs
    /\ UNCHANGED notPollVars

PollNext ==
    \/ Tick
    \/ PollPending
    \/ \E nextReqIdx \in 0..1 : DevStore(nextReqIdx)

----------------------------------------------------------------------------
(* The persistent ring with a RAM ring to import into: inputs and actions *)

\* No operation on the persistent ring yet
NvsNoOp == [op |-> "none", ok |-> TRUE, how |-> "", n |-> 0, seq |-> 0]

\* What an operation leaves in nvsOp: its name, its return value, how it went,
\* its count and sequence arguments
NvsDid(op, ok, how, n, seq) ==
    [op |-> op, ok |-> ok, how |-> how, n |-> n, seq |-> seq]

\* What configure finds in the namespace
Found(s) ==
    IF flash.meta = <<>> THEN "none"
    ELSE IF ~MetaLoads(flash.meta[1]) THEN "foreign"
    ELSE IF ~MetaCompatible(flash.meta[1], s.payloadSize, s.timestampBytes,
                            s.timestampResolutionUs) THEN "mismatch"
    ELSE "match"

\* The namespace and the object together, as the operations take them
NvsWorld == [kv |-> flash, o |-> nvs]

\* Schemas given to configure: a base schema and one that differs from it in
\* payloadSize, one in timestampBytes, one in timestampResolutionUs
NvsSchemas ==
    {[payloadSize |-> 2, timestampBytes |-> 1, timestampResolutionUs |-> 1000],
     [payloadSize |-> 3, timestampBytes |-> 1, timestampResolutionUs |-> 1000],
     [payloadSize |-> 2, timestampBytes |-> 2, timestampResolutionUs |-> 1000],
     [payloadSize |-> 2, timestampBytes |-> 1, timestampResolutionUs |-> 2000]}

\* The payload stored under sequence number seq: the raw timestamp byte, then
\* bytes that tell the entries apart
PayloadFor(seq, payloadSize) ==
    [i \in 1..payloadSize |-> IF i = 1 THEN seq % 256 ELSE 100 + seq]

\* Its adjusted timestamp (ms): values below and above 2^16
AdjTsMsFor(seq) == 65000 + 1000 * seq

\* A batch of count entries from firstSeq: the flat payload bytes and the
\* adjusted timestamps
RECURSIVE BatchPayloads(_, _, _)
BatchPayloads(firstSeq, count, payloadSize) ==
    IF count = 0 THEN <<>>
    ELSE PayloadFor(firstSeq, payloadSize) \o
         BatchPayloads(firstSeq + 1, count - 1, payloadSize)

BatchAdjTsMs(firstSeq, count) == [i \in 1..count |-> AdjTsMsFor(firstSeq + i - 1)]

\* First sequence numbers tried for a batch, d in 0..2: one already stored,
\* the next one, one after a gap; 0, 1 or 2 for an empty store
BatchFirstSeq(d) ==
    IF nvs.meta.count = 0 THEN d ELSE nvs.meta.nextSeq + d - 1

\* The entries a successful appendBatch stored, for nvsLog
StoredBy(res, firstSeq, count) ==
    LET erased == res.writes # <<>> /\ res.writes[1].k = "erase_all"
        kept == IF erased \/ nvs.meta.count = 0 THEN <<>> ELSE nvsLog
        from == IF kept = <<>> THEN firstSeq ELSE nvs.meta.nextSeq
        added == IF from > firstSeq + count - 1 THEN <<>>
                 ELSE [i \in 1..(firstSeq + count - from) |->
                         [seq |-> from + i - 1, adjTsMs |-> AdjTsMsFor(from + i - 1),
                          data |-> PayloadFor(from + i - 1, nvs.meta.payloadSize)]]
    IN kept \o added

NvsConfigure(s, maxEntries) ==
    LET res == NVS_configure(NvsWorld, s.payloadSize, s.timestampBytes,
                             s.timestampResolutionUs, maxEntries) IN
    /\ flash' = res.w.kv
    /\ nvs' = res.w.o
    /\ nvsLog' = IF res.w.kv.meta # flash.meta THEN <<>> ELSE nvsLog
    /\ nvsOp' = NvsDid("configure", res.ok, Found(s), maxEntries, 0)
    /\ UNCHANGED ring
    /\ UNCHANGED notNvsVars

\* A restart: a new OfflineDataStoreNVS is constructed over the namespace as
\* it is and configured
NvsRestartConfigure(s, maxEntries) ==
    LET res == NVS_configure([kv |-> flash, o |-> NVS_default], s.payloadSize,
                             s.timestampBytes, s.timestampResolutionUs, maxEntries) IN
    /\ flash' = res.w.kv
    /\ nvs' = res.w.o
    /\ nvsLog' = IF res.w.kv.meta # flash.meta THEN <<>> ELSE nvsLog
    /\ nvsOp' = NvsDid("restart", res.ok, Found(s), maxEntries, 0)
    /\ UNCHANGED ring
    /\ UNCHANGED notNvsVars

NvsSetEffectiveMaxEntries(maxEntries) ==
    LET w == NVS_setEffectiveMaxEntries(NvsWorld, maxEntries) IN
    /\ flash' = w.kv
    /\ nvs' = w.o
    /\ nvsOp' = NvsDid("setEffectiveMaxEntries", TRUE,
                       IF w.o.meta.count < nvs.meta.count THEN "clipped" ELSE "",
                       maxEntries, 0)
    /\ UNCHANGED <<ring, nvsLog>>
    /\ UNCHANGED notNvsVars

NvsAppendBatch(firstSeq, count) ==
    /\ firstSeq + count - 1 <= MaxNvsSeq
    /\ LET res == NVS_appendBatch(NvsWorld,
                      BatchPayloads(firstSeq, count, nvs.meta.payloadSize),
                      nvs.meta.payloadSize, BatchAdjTsMs(firstSeq, count),
                      firstSeq, count) IN
       /\ flash' = res.w.kv
       /\ nvs' = res.w.o
       /\ nvsLog' = IF res.ok THEN StoredBy(res, firstSeq, count) ELSE nvsLog
       /\ nvsOp' = NvsDid("appendBatch", res.ok,
                          IF res.writes # <<>> /\ res.writes[1].k = "erase_all"
                          THEN "gap"
                          ELSE IF nvsOp.op = "configure" /\ nvsOp.how = "mismatch"
                          THEN "after mismatch"
                          ELSE IF ~res.ok \/ nvs.meta.count = 0
                                  \/ firstSeq >= nvs.meta.nextSeq
                          THEN ""
                          ELSE IF res.writes = <<>> THEN "all stored"
                          ELSE "some stored", count, firstSeq)
    /\ UNCHANGED ring
    /\ UNCHANGED notNvsVars

\* appendBatch stopped after the first k of its key-value writes; the object
\* is gone and a new one is constructed at restart
NvsAppendBatchCrash(firstSeq, count, k) ==
    /\ firstSeq + count - 1 <= MaxNvsSeq
    /\ LET res == NVS_appendBatch(NvsWorld,
                      BatchPayloads(firstSeq, count, nvs.meta.payloadSize),
                      nvs.meta.payloadSize, BatchAdjTsMs(firstSeq, count),
                      firstSeq, count) IN
       /\ k < Len(res.writes)
       /\ flash' = KvApplyAll(flash, SubSeq(res.writes, 1, k))
       /\ nvs' = NVS_default
       /\ nvsLog' = IF res.writes[1].k = "erase_all" /\ k > 0 THEN <<>> ELSE nvsLog
       /\ nvsOp' = [op |-> "crash", ok |-> FALSE,
                    how |-> IF res.writes[1].k = "erase_all" THEN "gap" ELSE "",
                    n |-> k, seq |-> firstSeq,
                    pre |-> flash, post |-> res.w.kv]
    /\ UNCHANGED ring
    /\ UNCHANGED notNvsVars

\* appendBatch whose f-th writeSegment or saveMeta call fails
NvsAppendBatchWriteFails(firstSeq, count, f) ==
    /\ firstSeq + count - 1 <= MaxNvsSeq
    /\ LET payloads == BatchPayloads(firstSeq, count, nvs.meta.payloadSize)
           adjTsMs == BatchAdjTsMs(firstSeq, count)
           res == NVS_appendBatch(NvsWorld, payloads, nvs.meta.payloadSize, adjTsMs,
                                  firstSeq, count)
           bad == NVS_appendBatchWriteFails(NvsWorld, payloads, nvs.meta.payloadSize,
                                            adjTsMs, firstSeq, count, f)
       IN
       /\ f <= Len(res.writes)
       /\ res.writes[f].k # "erase_all"
       /\ flash' = bad.w.kv
       /\ nvs' = bad.w.o
       /\ nvsLog' = IF res.writes[1].k = "erase_all" THEN <<>> ELSE nvsLog
       /\ nvsOp' = NvsDid("appendBatch", bad.ok, "write failed", count, firstSeq)
    /\ UNCHANGED ring
    /\ UNCHANGED notNvsVars

\* appendBatch while the stored segments in unreadable fail to read
NvsAppendBatchReadFails(firstSeq, count, unreadable) ==
    /\ firstSeq + count - 1 <= MaxNvsSeq
    /\ unreadable \subseteq DOMAIN flash.seg
    /\ LET res == NVS_appendBatchReadFails(NvsWorld,
                      BatchPayloads(firstSeq, count, nvs.meta.payloadSize),
                      nvs.meta.payloadSize, BatchAdjTsMs(firstSeq, count),
                      firstSeq, count, unreadable) IN
       /\ flash' = res.w.kv
       /\ nvs' = res.w.o
       /\ nvsLog' = IF res.ok THEN StoredBy(res, firstSeq, count) ELSE nvsLog
       /\ nvsOp' = [op |-> "appendBatch", ok |-> res.ok, how |-> "read failed",
                    n |-> count, seq |-> firstSeq,
                    pre |-> NvsWorld, post |-> res.w]
    /\ UNCHANGED ring
    /\ UNCHANGED notNvsVars

NvsImportTo(importMaxEntries) ==
    LET res == NVS_importTo(NvsWorld, ring, importMaxEntries) IN
    /\ flash' = res.w.kv
    /\ nvs' = res.w.o
    /\ ring' = res.dest
    /\ nvsOp' = NvsDid("importTo", res.ok, "", Len(res.puts), 0)
    /\ UNCHANGED nvsLog
    /\ UNCHANGED notNvsVars

NvsClear ==
    LET w == NVS_clear(NvsWorld) IN
    /\ flash' = w.kv
    /\ nvs' = w.o
    /\ nvsLog' = <<>>
    /\ nvsOp' = NvsDid("clear", TRUE, "", 0, 0)
    /\ UNCHANGED ring
    /\ UNCHANGED notNvsVars

\* A consuming get on the RAM ring imported into
DestGet(maxResponsesToReturn) ==
    LET res == ODS_get(ring, maxResponsesToReturn, TRUE, 0, 0) IN
    /\ ring' = res.st
    /\ nvsOp' = NvsDid("get", res.n > 0, "", res.n, 0)
    /\ UNCHANGED <<flash, nvs, nvsLog>>
    /\ UNCHANGED notNvsVars

\* consume on the RAM ring imported into
DestConsume(numResponses) ==
    LET res == ODS_consume(ring, numResponses) IN
    /\ ring' = res.st
    /\ nvsOp' = NvsDid("consume", res.ok, "", numResponses, 0)
    /\ UNCHANGED <<flash, nvs, nvsLog>>
    /\ UNCHANGED notNvsVars

\* The schema the persistent ring normally has
BaseSchema == [payloadSize |-> 2, timestampBytes |-> 1, timestampResolutionUs |-> 1000]

\* The persistent ring configured with changing schemas
NvsCfgNext ==
    \/ \E s \in NvsSchemas, maxEntries \in 1..MaxNvsEntries : NvsConfigure(s, maxEntries)
    \/ \E maxEntries \in 0..MaxNvsEntries : NvsSetEffectiveMaxEntries(maxEntries)
    \/ \E d \in 0..2, count \in 1..MaxBatch : NvsAppendBatch(BatchFirstSeq(d), count)
    \/ NvsClear

\* The persistent ring of one schema, filled and imported into a RAM ring
\* that is drained
NvsNext ==
    \/ \E maxEntries \in 1..MaxNvsEntries : NvsConfigure(BaseSchema, maxEntries)
    \/ \E maxEntries \in 0..MaxNvsEntries : NvsSetEffectiveMaxEntries(maxEntries)
    \/ \E d \in 0..2, count \in 1..MaxBatch : NvsAppendBatch(BatchFirstSeq(d), count)
    \/ \E importMaxEntries \in 0..MaxBatch : NvsImportTo(importMaxEntries)
    \/ DestGet(1)
    \/ DestConsume(1)

\* The persistent ring of one schema, with appendBatch calls that stop
\* part-way (power loss) and restarts
NvsCrashNext ==
    \/ \E maxEntries \in 1..MaxNvsEntries : NvsConfigure(BaseSchema, maxEntries)
    \/ \E d \in 0..2, count \in 1..MaxBatch : NvsAppendBatch(BatchFirstSeq(d), count)
    \/ \E d \in 0..2, count \in 1..MaxBatch, k \in 0..(MaxBatch + 2) :
          NvsAppendBatchCrash(BatchFirstSeq(d), count, k)

----------------------------------------------------------------------------
\* The persistent ring of one schema over a key-value store whose writes can
\* fail
NvsFailNext ==
    \/ NvsConfigure(BaseSchema, MaxNvsEntries)
    \/ \E d \in 0..2, count \in 1..MaxBatch : NvsAppendBatch(BatchFirstSeq(d), count)
    \/ \E d \in 0..2, count \in 1..MaxBatch, f \in 1..(MaxBatch + 2) :
          NvsAppendBatchWriteFails(BatchFirstSeq(d), count, f)
    \/ \E d \in 0..2, count \in 1..MaxBatch :
          NvsAppendBatchReadFails(BatchFirstSeq(d), count, {0})

----------------------------------------------------------------------------

\* The persistent ring filled, imported from and restarted
NvsRestartNext ==
    \/ \E maxEntries \in 1..(MaxNvsEntries + 1) :
          NvsRestartConfigure(BaseSchema, maxEntries)
    \/ \E d \in 0..2, count \in 1..MaxBatch : NvsAppendBatch(BatchFirstSeq(d), count)
    \/ \E importMaxEntries \in 0..MaxBatch : NvsImportTo(importMaxEntries)

----------------------------------------------------------------------------

(* DeviceManager: the device list and the bus element status callback *)

\* A DeviceManager with no device instantiated and no callback registered
DeviceManagerDefault == [deviceList |-> <<>>, deviceStatusChangeCBList |-> <<>>]

\* nullptr
NoDevice == 0

\* The pointers in _deviceList
ListedDevices(m) == {m.deviceList[i].ptr : i \in 1..Len(m.deviceList)}

\* new RaftBusDevice(...): the pointer to the new object, one that no listed
\* device has (the allocator may hand out the address of a deleted one)
NewDevice(m) == CHOOSE p \in 1..(Len(m.deviceList) + 1) : p \notin ListedDevices(m)

\* RaftDevice* getDeviceByID(pDeviceID) const: the first device of the list
\* whose id matches; nullptr when there is none or the mutex was not obtained
\* within 5 ms
getDeviceByID(m, deviceId, taken) ==
    LET hits == {i \in 1..Len(m.deviceList) : m.deviceList[i].id = deviceId} IN
    IF ~taken \/ hits = {} THEN NoDevice
    ELSE m.deviceList[CHOOSE i \in hits : \A j \in hits : i <= j].ptr

\* void registerForDeviceStatusChange(statusChangeCB)
registerForDeviceStatusChange(m, statusChangeCB) ==
    [m EXCEPT !.deviceStatusChangeCBList = Append(@, statusChangeCB)]

\* Something busElemStatusCB did to or with the device pDevice, and whether
\* the device was in _deviceList at that moment
CallOn(m, call, pDevice) ==
    [call |-> call, ptr |-> pDevice, inList |-> pDevice \in ListedDevices(m),
     cb |-> 0, isOnline |-> FALSE, newlyCreated |-> FALSE]

\* void callDeviceStatusChangeCBs(pDevice, el, newlyCreated): the callbacks
\* called, none when the mutex was not obtained within 5 ms
callDeviceStatusChangeCBs(m, pDevice, el, newlyCreated, taken) ==
    IF ~taken THEN <<>>
    ELSE [i \in 1..Len(m.deviceStatusChangeCBList) |->
             [CallOn(m, "statusChangeCB", pDevice) EXCEPT
                 !.cb = m.deviceStatusChangeCBList[i],
                 !.isOnline = el.isChangeToOnline \/ newlyCreated,
                 !.newlyCreated = newlyCreated]]

RemovesDevice_OnChangeToOffline(el) == el.isChangeToOffline

\* busElemStatusCB: if (!el.isChangeToOnline) ... _deviceList.remove(pDevice)
RemovesDevice(el) == ~el.isChangeToOnline

\* _deviceList.remove(pDevice)
ListWithout(deviceList, pDevice) ==
    SelectSeq(deviceList, LAMBDA d : d.ptr # pDevice)

\* busElemStatusCB: the body of the loop for one element el; mx tells which
\* of the 5 ms waits for _accessMutex obtained it
ElemStatusChange(m, el, mx) ==
    LET deviceId == el.address
        found == getDeviceByID(m, deviceId, mx.find)
        creates == found = NoDevice /\ el.isNewlyIdentified
        new == NewDevice(m)
        newRec == [ptr |-> new, id |-> deviceId, deviceTypeIndex |-> el.deviceTypeIndex]
        \* after the creation branch
        m1 == IF ~creates THEN m
              ELSE IF mx.add
              THEN [m EXCEPT !.deviceList = Append(@, newRec)]
              ELSE m
        ev1 == IF ~creates THEN <<>>
               ELSE IF mx.add
               THEN <<CallOn(m, "new", new), CallOn(m1, "push_back", new),
                      CallOn(m1, "setup", new), CallOn(m1, "postSetup", new)>>
               ELSE <<CallOn(m, "new", new), CallOn(m, "delete", new)>>
        newlyCreated == creates
        pDevice == IF creates THEN (IF mx.add THEN new ELSE NoDevice) ELSE found
        \* the status update
        ev2 == IF pDevice = NoDevice THEN <<>>
               ELSE <<CallOn(m1, "handleStatusChange", pDevice)>>
                    \o callDeviceStatusChangeCBs(m1, pDevice, el, newlyCreated, mx.cbs)
                    \o (IF newlyCreated
                        THEN <<CallOn(m1, "registerForDeviceDataChangeCBs", pDevice)>>
                        ELSE <<>>)
        removes == pDevice # NoDevice /\ RemovesDevice(el) /\ mx.remove
        m2 == IF removes
              THEN [m1 EXCEPT !.deviceList = ListWithout(@, pDevice)]
              ELSE m1
        ev3 == IF removes THEN <<CallOn(m2, "remove", pDevice)>> ELSE <<>>
    IN [man |-> m2, calls |-> ev1 \o ev2 \o ev3]

\* void busElemStatusCB(bus, statusChanges): the elements in order; calls
\* holds the calls made for each element
RECURSIVE busElemStatusCB(_, _, _)
busElemStatusCB(m, statusChanges, mxs) ==
    IF statusChanges = <<>> THEN [man |-> m, calls |-> <<>>]
    ELSE LET one == ElemStatusChange(m, Head(statusChanges), Head(mxs))
             rest == busElemStatusCB(one.man, Tail(statusChanges), Tail(mxs))
         IN [man |-> rest.man, calls |-> <<one.calls>> \o rest.calls]

----------------------------------------------------------------------------
(* DeviceManager: inputs and actions *)

\* No busElemStatusCB call yet
NoStatusCB == [statusChanges |-> <<>>, mxs |-> <<>>, cbs |-> <<>>, calls |-> <<>>]

\* Bus element addresses (the unique id of an element is formed from its
\* address) and the device type index reported on identification
ManAddresses == 1..2
ManTypeIndex == 7

\* Status changes a bus reports: to online, to offline (was online), or
\* offline without having been online; with and without identification
StatusChanges ==
    {[address |-> a, isChangeToOnline |-> f[1], isChangeToOffline |-> f[2],
      isNewlyIdentified |-> n, deviceTypeIndex |-> ManTypeIndex] :
        a \in ManAddresses, n \in BOOLEAN,
        f \in {<<TRUE, FALSE>>, <<FALSE, TRUE>>, <<FALSE, FALSE>>}}

\* The 5 ms waits for _accessMutex of one element: all obtained, or one of
\* them timed out
AllTaken == [find |-> TRUE, add |-> TRUE, cbs |-> TRUE, remove |-> TRUE]
MutexOutcomes ==
    {mx \in [find : BOOLEAN, add : BOOLEAN, cbs : BOOLEAN, remove : BOOLEAN] :
        Cardinality({f \in {"find", "add", "cbs", "remove"} : ~mx[f]}) <= 1}

\* The calls tried: one element (for address 1 with each mutex outcome), or
\* an element identified online followed by a second element, every mutex
\* obtained
StatusChangeLists ==
    {<<<<el>>, <<mx>>>> : el \in {e \in StatusChanges : e.address = 1}, mx \in MutexOutcomes}
    \cup {<<<<el>>, <<AllTaken>>>> : el \in StatusChanges}
    \cup {<<<<e1, e2>>, <<AllTaken, AllTaken>>>> :
              e1 \in {el \in StatusChanges : el.isNewlyIdentified /\ el.isChangeToOnline
                                              /\ el.address = 1},
              e2 \in {el \in StatusChanges : ~el.isNewlyIdentified}}

ManRegisterForDeviceStatusChange ==
    /\ Len(man.deviceStatusChangeCBList) < MaxStatusCBs
    /\ man' = registerForDeviceStatusChange(man, Len(man.deviceStatusChangeCBList) + 1)
    /\ UNCHANGED cbOp
    /\ UNCHANGED notManVars

ManBusElemStatusCB(statusChanges, mxs) ==
    /\ LET res == busElemStatusCB(man, statusChanges, mxs) IN
       /\ Len(res.man.deviceList) <= MaxDevices
       /\ man' = res.man
       /\ cbOp' = [statusChanges |-> statusChanges, mxs |-> mxs,
                   cbs |-> man.deviceStatusChangeCBList, calls |-> res.calls]
    /\ UNCHANGED notManVars

ManNext ==
    \/ ManRegisterForDeviceStatusChange
    \/ \E c \in StatusChangeLists : ManBusElemStatusCB(c[1], c[2])

----------------------------------------------------------------------------
(* DeviceManager: getDeviceListFrozen beside a list update, step by step *)

\* The two tasks: "frozen" calls getDeviceListFrozen and loops over the copy
\* (loop), "cb" adds or removes a device (busElemStatusCB). holders is who
\* holds _accessMutex, mid is TRUE while a push_back or remove has started on
\* _deviceList and not finished, seen is the values _deviceList had since
\* the current getDeviceListFrozen call obtained the mutex
NoTasks ==
    [holders |-> {}, mid |-> FALSE, seen |-> {},
     frozen |-> [pc |-> "idle", maxDevices |-> 0, it |-> 0, pDevices |-> <<>>,
                 numDevices |-> 0, devIdx |-> 0, how |-> "", returned |-> <<>>,
                 sawMid |-> FALSE],
     cb |-> [pc |-> "idle", op |-> "", rec |-> <<>>, timedOut |-> FALSE]]

\* xSemaphoreTake(_accessMutex, pdMS_TO_TICKS(5)) == pdTRUE needs the mutex
\* to come free within the wait
MutexFree(t) == t.holders = {}

FrozenTakes_NoWait(t) == TRUE

\* getDeviceListFrozen: if (xSemaphoreTake(...) != pdTRUE) return 0
FrozenTakes(t) == MutexFree(t)

\* What getDeviceListFrozen is to return for a list: the non-null devices in
\* list order, the first maxDevices of them
FrozenOf(deviceList, maxDevices) ==
    LET nonNull == SelectSeq(deviceList, LAMBDA d : d.ptr # NoDevice)
        n == IF Len(nonNull) < maxDevices THEN Len(nonNull) ELSE maxDevices
    IN [i \in 1..n |-> nonNull[i].ptr]

\* _deviceList gets a new value while a snapshot may be in the making
SeenWith(t, deviceList) ==
    IF t.frozen.pc \in {"copy", "give"} THEN t.seen \cup {deviceList} ELSE t.seen

\* getDeviceListFrozen, the mutex obtained: numDevices = 0, iteration starts
FrozenTake(maxDevices) ==
    /\ tasks.frozen.pc = "idle"
    /\ FrozenTakes(tasks)
    /\ tasks' = [tasks EXCEPT
                    !.holders = @ \cup {"frozen"},
                    !.seen = {man.deviceList},
                    !.frozen = [pc |-> "copy", maxDevices |-> maxDevices, it |-> 1,
                                pDevices |-> <<>>, numDevices |-> 0, devIdx |-> 0,
                                how |-> "", returned |-> <<>>, sawMid |-> tasks.mid]]
    /\ UNCHANGED <<man, cbOp>>
    /\ UNCHANGED notFrozenVars

\* getDeviceListFrozen, the mutex not obtained within 5 ms: return 0
FrozenTimeout(maxDevices) ==
    /\ tasks.frozen.pc = "idle"
    /\ ~FrozenTakes(tasks)
    /\ tasks' = [tasks EXCEPT
                    !.frozen = [pc |-> "iterate", maxDevices |-> maxDevices, it |-> 0,
                                pDevices |-> <<>>, numDevices |-> 0, devIdx |-> 0,
                                how |-> "timeout", returned |-> <<>>, sawMid |-> FALSE]]
    /\ UNCHANGED <<man, cbOp>>
    /\ UNCHANGED notFrozenVars

\* getDeviceListFrozen: one turn of for (auto* pDevice : _deviceList), with
\* its break at maxDevices and its null check
FrozenCopy ==
    /\ tasks.frozen.pc = "copy"
    /\ LET f == tasks.frozen
           atEnd == f.it > Len(man.deviceList)
           pDevice == man.deviceList[f.it].ptr
       IN tasks' = [tasks EXCEPT !.frozen =
             IF atEnd \/ f.numDevices >= f.maxDevices
             THEN [f EXCEPT !.pc = "give", !.sawMid = @ \/ tasks.mid]
             ELSE IF pDevice # NoDevice
             THEN [f EXCEPT !.pDevices = Append(@, pDevice), !.numDevices = @ + 1,
                            !.it = @ + 1, !.sawMid = @ \/ tasks.mid]
             ELSE [f EXCEPT !.it = @ + 1, !.sawMid = @ \/ tasks.mid]]
    /\ UNCHANGED <<man, cbOp>>
    /\ UNCHANGED notFrozenVars

\* getDeviceListFrozen: xSemaphoreGive(_accessMutex); return numDevices
FrozenGive ==
    /\ tasks.frozen.pc = "give"
    /\ tasks' = [tasks EXCEPT
                    !.holders = @ \ {"frozen"},
                    !.frozen.pc = "iterate",
                    !.frozen.how = "copied",
                    !.frozen.returned = tasks.frozen.pDevices]
    /\ UNCHANGED <<man, cbOp>>
    /\ UNCHANGED notFrozenVars

\* loop: pDeviceListCopy[devIdx]->loop() for the next device of the copy
FrozenLoopDevice ==
    /\ tasks.frozen.pc = "iterate"
    /\ tasks.frozen.devIdx < tasks.frozen.numDevices
    /\ tasks' = [tasks EXCEPT !.frozen.devIdx = @ + 1]
    /\ UNCHANGED <<man, cbOp>>
    /\ UNCHANGED notFrozenVars

\* loop: the for loop over the copy ends, the copy goes out of scope
FrozenLoopEnd ==
    /\ tasks.frozen.pc = "iterate"
    /\ tasks.frozen.devIdx >= tasks.frozen.numDevices
    /\ tasks' = [tasks EXCEPT !.frozen = NoTasks.frozen, !.seen = {}]
    /\ UNCHANGED <<man, cbOp>>
    /\ UNCHANGED notFrozenVars

\* busElemStatusCB: the mutex obtained to push_back a device created for an
\* id that is not in the list
CbTakeForAdd(deviceId) ==
    /\ tasks.cb.pc = "idle"
    /\ MutexFree(tasks)
    /\ Len(man.deviceList) < MaxDevices
    /\ getDeviceByID(man, deviceId, TRUE) = NoDevice
    /\ tasks' = [tasks EXCEPT
                    !.holders = @ \cup {"cb"},
                    !.cb = [pc |-> "held", op |-> "push_back",
                            rec |-> [ptr |-> NewDevice(man), id |-> deviceId,
                                     deviceTypeIndex |-> ManTypeIndex],
                            timedOut |-> FALSE]]
    /\ UNCHANGED <<man, cbOp>>
    /\ UNCHANGED notFrozenVars

\* busElemStatusCB: the mutex obtained to remove a listed device
CbTakeForRemove(i) ==
    /\ tasks.cb.pc = "idle"
    /\ MutexFree(tasks)
    /\ i \in 1..Len(man.deviceList)
    /\ tasks' = [tasks EXCEPT
                    !.holders = @ \cup {"cb"},
                    !.cb = [pc |-> "held", op |-> "remove", rec |-> man.deviceList[i],
                            timedOut |-> FALSE]]
    /\ UNCHANGED <<man, cbOp>>
    /\ UNCHANGED notFrozenVars

\* busElemStatusCB: the mutex not obtained within 5 ms, the list is left
\* alone (a new device is deleted, a removal is skipped)
CbTimeout ==
    /\ tasks.cb.pc = "idle"
    /\ ~tasks.cb.timedOut
    /\ ~MutexFree(tasks)
    /\ tasks' = [tasks EXCEPT !.cb.timedOut = TRUE]
    /\ UNCHANGED <<man, cbOp>>
    /\ UNCHANGED notFrozenVars

\* _deviceList.push_back(pDevice) or _deviceList.remove(pDevice) starts
CbUpdateStarts ==
    /\ tasks.cb.pc = "held"
    /\ tasks' = [tasks EXCEPT !.cb.pc = "updating", !.mid = TRUE]
    /\ UNCHANGED <<man, cbOp>>
    /\ UNCHANGED notFrozenVars

\* ... and finishes
CbUpdateEnds ==
    /\ tasks.cb.pc = "updating"
    /\ LET deviceList == IF tasks.cb.op = "push_back"
                         THEN Append(man.deviceList, tasks.cb.rec)
                         ELSE ListWithout(man.deviceList, tasks.cb.rec.ptr)
       IN /\ man' = [man EXCEPT !.deviceList = deviceList]
          /\ tasks' = [tasks EXCEPT !.cb.pc = "give", !.mid = FALSE,
                                    !.seen = SeenWith(tasks, deviceList)]
    /\ UNCHANGED cbOp
    /\ UNCHANGED notFrozenVars

\* busElemStatusCB: xSemaphoreGive(_accessMutex)
CbGive ==
    /\ tasks.cb.pc = "give"
    /\ tasks' = [tasks EXCEPT !.holders = @ \ {"cb"}, !.cb.pc = "idle"]
    /\ UNCHANGED <<man, cbOp>>
    /\ UNCHANGED notFrozenVars

FrozenNext ==
    \/ \E maxDevices \in 1..MaxDevices : FrozenTake(maxDevices)
    \/ \E maxDevices \in 1..MaxDevices : FrozenTimeout(maxDevices)
    \/ FrozenCopy
    \/ FrozenGive
    \/ FrozenLoopDevice
    \/ FrozenLoopEnd
    \/ \E deviceId \in ManAddresses : CbTakeForAdd(deviceId)
    \/ \E i \in 1..MaxDevices : CbTakeForRemove(i)
    \/ CbTimeout
    \/ CbUpdateStarts
    \/ CbUpdateEnds
    \/ CbGive

----------------------------------------------------------------------------

(* DeviceManager: the offlinebuf REST request on one bus *)

\* The addresses on the bus (getDeviceAddresses) and the device type name of
\* each (getDeviceTypeName; address 2 has none and the call returns false)
BusAddrs == {1, 2}
HasTypeName(address) == address = 1
TypeNameOf(address) == IF address = 1 THEN "VL53" ELSE ""

\* toLower of the type names used
toLower(typeName) == IF typeName = "VL53" THEN "vl53" ELSE typeName

\* What stands behind the offline control calls of RaftBusDevicesIF on a bus:
\* the state getOfflineControlSnapshot reports, the auto-resume setting and
\* the depth of each address's buffer
OfflineControlDefault ==
    [globalBufferPaused |-> FALSE, bufferPaused |-> {},
     globalDrainPaused |-> FALSE, drainPaused |-> {},
     drainSelectedAddrs |-> {}, drainSelectedTypes |-> {}, drainOnlySelected |-> FALSE,
     rateOverridesMs |-> [a \in BusAddrs |-> 0],
     autoResume |-> [enabled |-> FALSE, addresses |-> {}, rateOverrideMs |-> 0],
     depth |-> [a \in BusAddrs |-> 1]]

\* A call on RaftBusDevicesIF with its arguments
IfCall(fn, addresses, flag, typeNames, ms) ==
    [fn |-> fn, addresses |-> addresses, flag |-> flag, typeNames |-> typeNames, ms |-> ms]

\* The calls of the interface that change nothing (const, estimates, peeks)
ReadOnlyCalls ==
    {"estimateOfflineAllocations", "getOfflineControlSnapshot", "getOfflineStats",
     "peekOfflineDataJson"}

\* The effect of one call on the control state: an empty address list means
\* the bus-wide flag
IfApply(ctl, c) ==
    IF c.fn = "setOfflineBufferPaused"
    THEN IF c.addresses = {} THEN [ctl EXCEPT !.globalBufferPaused = c.flag]
         ELSE [ctl EXCEPT !.bufferPaused = IF c.flag THEN @ \cup c.addresses
                                            ELSE @ \ c.addresses]
    ELSE IF c.fn = "setOfflineDrainPaused"
    THEN IF c.addresses = {} THEN [ctl EXCEPT !.globalDrainPaused = c.flag]
         ELSE [ctl EXCEPT !.drainPaused = IF c.flag THEN @ \cup c.addresses
                                           ELSE @ \ c.addresses]
    ELSE IF c.fn = "applyOfflineRateOverride"
    THEN [ctl EXCEPT !.rateOverridesMs =
             [a \in BusAddrs |-> IF a \in c.addresses THEN c.ms ELSE @[a]]]
    ELSE IF c.fn = "clearOfflineRateOverride"
    THEN [ctl EXCEPT !.rateOverridesMs =
             [a \in BusAddrs |-> IF a \in c.addresses THEN 0 ELSE @[a]]]
    ELSE IF c.fn = "setOfflineDrainSelection"
    THEN [ctl EXCEPT !.drainSelectedAddrs = c.addresses,
                     !.drainSelectedTypes = c.typeNames,
                     !.drainOnlySelected = c.flag]
    ELSE IF c.fn = "setOfflineAutoResume"
    THEN [ctl EXCEPT !.autoResume = [enabled |-> c.flag, addresses |-> c.addresses,
                                     rateOverrideMs |-> c.ms]]
    ELSE IF c.fn = "resetOfflineBuffers"
    THEN [ctl EXCEPT !.depth = [a \in BusAddrs |-> IF a \in c.addresses THEN 0 ELSE @[a]]]
    ELSE ctl

RECURSIVE IfApplyAll(_, _)
IfApplyAll(ctl, calls) ==
    IF calls = <<>> THEN ctl ELSE IfApplyAll(IfApply(ctl, Head(calls)), Tail(calls))

DoStop_OnlyStop(req) == req.action = "stop"

\* apiDevMan, offlinebuf: the action flags
DoStart(req) == req.action \in {"start", "resume"}
DoStop(req) == req.action \in {"stop", "pause"}
DoReset(req) == req.action \in {"reset", "clear"}
DoPeek(req) == req.action = "peek" \/ (req.action = "fetch" /\ req.nonDestructive)

\* apiDevMan, offlinebuf: the addresses of the bus the request is about
TargetAddrs(req) ==
    LET requestedTypesLower == {toLower(t) : t \in req.typeNames}
        addrMatch(a) == req.addresses # {} /\ a \in req.addresses
        typeMatch(a) == requestedTypesLower # {} /\ HasTypeName(a)
                        /\ toLower(TypeNameOf(a)) \in requestedTypesLower
    IN {a \in BusAddrs :
           \/ req.addresses = {} /\ requestedTypesLower = {}
           \/ addrMatch(a) \/ typeMatch(a)}

\* apiDevMan, offlinebuf: the calls of the start branch
StartCalls(req, targetAddrs) ==
    <<IfCall("setOfflineBufferPaused", {}, FALSE, {}, 0)>>
    \o (IF targetAddrs # BusAddrs
        THEN <<IfCall("setOfflineBufferPaused", BusAddrs \ targetAddrs, TRUE, {}, 0)>>
        ELSE <<>>)
    \o <<IfCall("setOfflineDrainPaused", {}, TRUE, {}, 0)>>
    \o (IF req.rateMs > 0
        THEN <<IfCall("applyOfflineRateOverride", targetAddrs, FALSE, {}, req.rateMs)>>
        ELSE <<>>)
    \o <<IfCall("setOfflineBufferPaused", targetAddrs, FALSE, {}, 0),
         IfCall("setOfflineDrainSelection", targetAddrs, FALSE, req.typeNames, 0),
         IfCall("rebalanceOfflineBuffers", targetAddrs, FALSE, {}, 0),
         IfCall("setOfflineAutoResume", targetAddrs, TRUE, {}, req.rateMs)>>

\* apiDevMan, offlinebuf: the calls of the stop branch
StopCalls(req, targetAddrs) ==
    <<IfCall("setOfflineBufferPaused",
             IF targetAddrs = BusAddrs THEN {} ELSE targetAddrs, TRUE, {}, 0),
      IfCall("setOfflineDrainPaused", {}, TRUE, {}, 0),
      IfCall("clearOfflineRateOverride", targetAddrs, FALSE, {}, 0),
      IfCall("setOfflineDrainSelection", {}, FALSE, {}, 0),
      IfCall("setOfflineAutoResume", {}, FALSE, {}, 0)>>
    \o (IF req.clear
        THEN <<IfCall("resetOfflineBuffers", targetAddrs, FALSE, {}, 0)>>
        ELSE <<>>)

\* apiDevMan, offlinebuf: the calls of the reset branch
ResetCalls(req, targetAddrs) ==
    <<IfCall("resetOfflineBuffers", targetAddrs, FALSE, {}, 0),
      IfCall("setOfflineAutoResume", {}, FALSE, {}, 0)>>

SelectedByType_Never(ctl, address) == FALSE

\* apiDevMan, offlinebuf stats: selectedByType
SelectedByType(ctl, address) ==
    /\ ctl.drainSelectedTypes # {}
    /\ HasTypeName(address)
    /\ TypeNameOf(address) \in ctl.drainSelectedTypes

\* apiDevMan, offlinebuf stats: drPaused of an address from the snapshot
DrainPausedReported(ctl, address) ==
    LET drPaused == ctl.globalDrainPaused \/ address \in ctl.drainPaused
        selectedByAddr == address \in ctl.drainSelectedAddrs
        selectedByType == SelectedByType(ctl, address)
    IN IF ctl.drainOnlySelected /\ ~(selectedByAddr \/ selectedByType) THEN TRUE
       ELSE drPaused

\* apiDevMan, offlinebuf stats: bufPaused of an address from the snapshot
BufferPausedReported(ctl, address) ==
    ctl.globalBufferPaused \/ address \in ctl.bufferPaused

\* apiDevMan, offlinebuf, for the one bus: the calls made on its
\* RaftBusDevicesIF in order, the control state after them and the
\* bufPaused and drainPaused reported for each target address
apiOfflineBuf(ctl, req) ==
    LET targetAddrs == TargetAddrs(req)
        changing ==
            (IF req.simulate
             THEN <<IfCall("estimateOfflineAllocations", targetAddrs, FALSE, {}, 0)>>
             ELSE IF DoStart(req) THEN StartCalls(req, targetAddrs)
             ELSE <<>>)
            \o (IF DoStop(req) THEN StopCalls(req, targetAddrs) ELSE <<>>)
            \o (IF DoReset(req) /\ ~DoStop(req) THEN ResetCalls(req, targetAddrs) ELSE <<>>)
        ctl1 == IfApplyAll(ctl, changing)
        reading ==
            <<IfCall("getOfflineControlSnapshot", {}, FALSE, {}, 0),
              IfCall("getOfflineStats", targetAddrs, FALSE, {}, 0)>>
            \o (IF DoPeek(req)
                THEN <<IfCall("peekOfflineDataJson", targetAddrs, FALSE, {}, 0)>>
                ELSE <<>>)
    IN IF targetAddrs = {}
       THEN [ctl |-> ctl, calls |-> <<>>, stats |-> <<>>]
       ELSE [ctl |-> ctl1, calls |-> changing \o reading,
             stats |-> [a \in targetAddrs |->
                           [bufPaused |-> BufferPausedReported(ctl1, a),
                            drainPaused |-> DrainPausedReported(ctl1, a)]]]

----------------------------------------------------------------------------
(* The offlinebuf request: inputs and action *)

\* No request handled yet
NoApiOp ==
    [req |-> [action |-> "none", simulate |-> FALSE, clear |-> FALSE,
              nonDestructive |-> TRUE, rateMs |-> 0, addresses |-> {}, typeNames |-> {}],
     pre |-> OfflineControlDefault, calls |-> <<>>, stats |-> <<>>]

\* The action parameter of a request (status when absent)
ApiActions ==
    {"status", "start", "resume", "stop", "pause", "reset", "clear", "peek", "fetch"}

\* addr and type of a request: neither, one address, or one type name in
\* lower case
ApiSelections ==
    {[addresses |-> {}, typeNames |-> {}], [addresses |-> {2}, typeNames |-> {}],
     [addresses |-> {}, typeNames |-> {"vl53"}]}

\* The requests tried: every action with and without simulate, for each
\* selection (a selection with status, start and stop); clear only matters
\* to stop and pause, rateMs to start and resume, nonDestructive to fetch
ApiRequests ==
    {[action |-> a, simulate |-> s, clear |-> c, nonDestructive |-> n, rateMs |-> r,
      addresses |-> sel.addresses, typeNames |-> sel.typeNames] :
        a \in ApiActions, s \in BOOLEAN, sel \in ApiSelections,
        c \in {FALSE, TRUE}, n \in {TRUE, FALSE}, r \in {0, 50}}

ApiRequestsTried ==
    {req \in ApiRequests :
        /\ (req.addresses # {} \/ req.typeNames # {}) =>
              req.action \in {"status", "start", "stop"}
        /\ req.clear => req.action \in {"stop", "pause"}
        /\ ~req.nonDestructive => req.action = "fetch"
        /\ req.rateMs > 0 => req.action \in {"start", "resume"}}

\* Control states a bus can be in when a request arrives (set by earlier
\* requests and by the bus's other users)
OfflineControlStates ==
    {[OfflineControlDefault EXCEPT
         !.globalDrainPaused = g, !.drainPaused = p, !.drainOnlySelected = o,
         !.drainSelectedAddrs = sa, !.drainSelectedTypes = st] :
        g \in BOOLEAN, p \in {{}, {1}}, o \in BOOLEAN,
        sa \in {{}, {1}, {2}}, st \in {{}, {"VL53"}}}

ApiOfflineBuf(req) ==
    /\ LET res == apiOfflineBuf(offCtl, req) IN
       /\ offCtl' = res.ctl
       /\ apiOp' = [req |-> req, pre |-> offCtl, calls |-> res.calls, stats |-> res.stats]
    /\ UNCHANGED notApiVars

ApiNext == \E req \in ApiRequestsTried : ApiOfflineBuf(req)

----------------------------------------------------------------------------
(* Specifications *)

AddrNext == \E isResponding \in BOOLEAN : Responding(isResponding)

\* One address record, default-constructed or constructed in a given state,
\* under any sequence of handleResponding calls
InitAddr ==
    /\ addr \in {BusAddrStatusDefault}
                \cup {BusAddrStatusCtor(s, FALSE) : s \in DeviceOnlineState}
    /\ thr \in [okMax : 1..MaxThreshold, failMax : 1..MaxThreshold]
    /\ trace = <<>>
    /\ ring = ODS_default
    /\ putLog = <<>>
    /\ drainLog = <<>>
    /\ lastOp = [op |-> "none", ok |-> TRUE]
    /\ dev = DeviceStatusDefault
    /\ clockUs = 0
    /\ pollLog = <<>>
    /\ flash = KvEmpty
    /\ nvs = NVS_default
    /\ nvsOp = NvsNoOp
    /\ nvsLog = <<>>
    /\ man = DeviceManagerDefault
    /\ cbOp = NoStatusCB
    /\ offCtl = OfflineControlDefault
    /\ apiOp = NoApiOp
    /\ tasks = NoTasks

SpecAddr == InitAddr /\ [][AddrNext]_vars

\* One RAM ring, unconfigured or just initialised, under any sequence of its
\* operations
InitRing ==
    /\ addr = BusAddrStatusDefault
    /\ thr = [okMax |-> ADDR_RESP_COUNT_OK_MAX_DEFAULT,
              failMax |-> ADDR_RESP_COUNT_FAIL_MAX_DEFAULT]
    /\ trace = <<>>
    /\ ring \in {ODS_default} \cup
                {ODS_init(c.maxEntries, c.timestampBytes + 1, c.timestampBytes,
                          c.timestampResolutionUs) : c \in Configs}
    /\ putLog = <<>>
    /\ drainLog = <<>>
    /\ lastOp = [op |-> "none", ok |-> TRUE]
    /\ dev = DeviceStatusDefault
    /\ clockUs = 0
    /\ pollLog = <<>>
    /\ flash = KvEmpty
    /\ nvs = NVS_default
    /\ nvsOp = NvsNoOp
    /\ nvsLog = <<>>
    /\ man = DeviceManagerDefault
    /\ cbOp = NoStatusCB
    /\ offCtl = OfflineControlDefault
    /\ apiOp = NoApiOp
    /\ tasks = NoTasks

SpecRing == InitRing /\ [][RingNext]_vars

\* One RAM ring, just initialised, under puts and consuming gets
InitDrain ==
    /\ addr = BusAddrStatusDefault
    /\ thr = [okMax |-> ADDR_RESP_COUNT_OK_MAX_DEFAULT,
              failMax |-> ADDR_RESP_COUNT_FAIL_MAX_DEFAULT]
    /\ trace = <<>>
    /\ ring \in {ODS_init(c.maxEntries, c.timestampBytes + 1, c.timestampBytes,
                          c.timestampResolutionUs) : c \in Configs}
    /\ putLog = <<>>
    /\ drainLog = <<>>
    /\ lastOp = [op |-> "none", ok |-> TRUE]
    /\ dev = DeviceStatusDefault
    /\ clockUs = 0
    /\ pollLog = <<>>
    /\ flash = KvEmpty
    /\ nvs = NVS_default
    /\ nvsOp = NvsNoOp
    /\ nvsLog = <<>>
    /\ man = DeviceManagerDefault
    /\ cbOp = NoStatusCB
    /\ offCtl = OfflineControlDefault
    /\ apiOp = NoApiOp
    /\ tasks = NoTasks

SpecDrain == InitDrain /\ [][DrainNext]_vars

\* One device, its offline buffer not yet configured, under any sequence of
\* the DeviceStatus operations
InitDev ==
    /\ addr = BusAddrStatusDefault
    /\ thr = [okMax |-> ADDR_RESP_COUNT_OK_MAX_DEFAULT,
              failMax |-> ADDR_RESP_COUNT_FAIL_MAX_DEFAULT]
    /\ trace = <<>>
    /\ ring = ODS_default
    /\ putLog = <<>>
    /\ drainLog = <<>>
    /\ lastOp = [op |-> "none", ok |-> TRUE]
    /\ dev = DeviceStatusDefault
    /\ clockUs = 0
    /\ pollLog = <<>>
    /\ flash = KvEmpty
    /\ nvs = NVS_default
    /\ nvsOp = NvsNoOp
    /\ nvsLog = <<>>
    /\ man = DeviceManagerDefault
    /\ cbOp = NoStatusCB
    /\ offCtl = OfflineControlDefault
    /\ apiOp = NoApiOp
    /\ tasks = NoTasks

SpecDev == InitDev /\ [][DevNext]_vars

\* One device with or without poll requests, its offline buffer not
\* configured, polled as time passes
InitPoll ==
    /\ addr = BusAddrStatusDefault
    /\ thr = [okMax |-> ADDR_RESP_COUNT_OK_MAX_DEFAULT,
              failMax |-> ADDR_RESP_COUNT_FAIL_MAX_DEFAULT]
    /\ trace = <<>>
    /\ ring = ODS_default
    /\ putLog = <<>>
    /\ drainLog = <<>>
    /\ lastOp = [op |-> "none", ok |-> TRUE]
    /\ dev \in {[DeviceStatusDefault EXCEPT !.pollIntervalUs = i, !.pollReqs = n] :
                    i \in PollIntervalsUs, n \in 0..1}
    /\ clockUs = 0
    /\ pollLog = <<>>
    /\ flash = KvEmpty
    /\ nvs = NVS_default
    /\ nvsOp = NvsNoOp
    /\ nvsLog = <<>>
    /\ man = DeviceManagerDefault
    /\ cbOp = NoStatusCB
    /\ offCtl = OfflineControlDefault
    /\ apiOp = NoApiOp
    /\ tasks = NoTasks

SpecPoll == InitPoll /\ [][PollNext]_vars

\* A namespace left by other firmware: one stored entry, and a meta whose
\* magic or version is not this build's
ForeignKv(magic, version) ==
    LET c == NVS_configure([kv |-> KvEmpty, o |-> NVS_default], 2, 1, 1000, 2)
        a == NVS_appendBatch(c.w, BatchPayloads(0, 1, 2), 2, BatchAdjTsMs(0, 1), 0, 1)
    IN [a.w.kv EXCEPT !.meta[1].magic = magic, !.meta[1].version = version]

\* One persistent ring, not yet configured, over an erased namespace or one
\* left by other firmware, configured with changing schemas
InitNvsCfg ==
    /\ addr = BusAddrStatusDefault
    /\ thr = [okMax |-> ADDR_RESP_COUNT_OK_MAX_DEFAULT,
              failMax |-> ADDR_RESP_COUNT_FAIL_MAX_DEFAULT]
    /\ trace = <<>>
    /\ ring = ODS_default
    /\ putLog = <<>>
    /\ drainLog = <<>>
    /\ lastOp = [op |-> "none", ok |-> TRUE]
    /\ dev = DeviceStatusDefault
    /\ clockUs = 0
    /\ pollLog = <<>>
    /\ flash \in {KvEmpty,
                  ForeignKv(OFFLINE_NVS_META_MAGIC, OFFLINE_NVS_META_VERSION - 1),
                  ForeignKv(0, OFFLINE_NVS_META_VERSION)}
    /\ nvs = NVS_default
    /\ nvsOp = NvsNoOp
    /\ nvsLog = <<>>
    /\ man = DeviceManagerDefault
    /\ cbOp = NoStatusCB
    /\ offCtl = OfflineControlDefault
    /\ apiOp = NoApiOp
    /\ tasks = NoTasks

SpecNvsCfg == InitNvsCfg /\ [][NvsCfgNext]_vars

\* One persistent ring, not yet configured, over an erased namespace, and a
\* RAM ring to import into (unconfigured, or of 2-byte payloads)
InitNvs ==
    /\ addr = BusAddrStatusDefault
    /\ thr = [okMax |-> ADDR_RESP_COUNT_OK_MAX_DEFAULT,
              failMax |-> ADDR_RESP_COUNT_FAIL_MAX_DEFAULT]
    /\ trace = <<>>
    /\ ring \in {ODS_default} \cup {ODS_init(k, 2, 1, 1000) : k \in 1..MaxRingEntries}
    /\ putLog = <<>>
    /\ drainLog = <<>>
    /\ lastOp = [op |-> "none", ok |-> TRUE]
    /\ dev = DeviceStatusDefault
    /\ clockUs = 0
    /\ pollLog = <<>>
    /\ flash = KvEmpty
    /\ nvs = NVS_default
    /\ nvsOp = NvsNoOp
    /\ nvsLog = <<>>
    /\ man = DeviceManagerDefault
    /\ cbOp = NoStatusCB
    /\ offCtl = OfflineControlDefault
    /\ apiOp = NoApiOp
    /\ tasks = NoTasks

SpecNvs == InitNvs /\ [][NvsNext]_vars

\* One persistent ring, not yet configured, over an erased namespace, with
\* power losses during appendBatch
InitNvsCrash ==
    /\ addr = BusAddrStatusDefault
    /\ thr = [okMax |-> ADDR_RESP_COUNT_OK_MAX_DEFAULT,
              failMax |-> ADDR_RESP_COUNT_FAIL_MAX_DEFAULT]
    /\ trace = <<>>
    /\ ring = ODS_default
    /\ putLog = <<>>
    /\ drainLog = <<>>
    /\ lastOp = [op |-> "none", ok |-> TRUE]
    /\ dev = DeviceStatusDefault
    /\ clockUs = 0
    /\ pollLog = <<>>
    /\ flash = KvEmpty
    /\ nvs = NVS_default
    /\ nvsOp = NvsNoOp
    /\ nvsLog = <<>>
    /\ man = DeviceManagerDefault
    /\ cbOp = NoStatusCB
    /\ offCtl = OfflineControlDefault
    /\ apiOp = NoApiOp
    /\ tasks = NoTasks

SpecNvsCrash == InitNvsCrash /\ [][NvsCrashNext]_vars

\* One persistent ring, not yet configured, over an erased namespace whose
\* writes can fail
InitNvsFail ==
    /\ addr = BusAddrStatusDefault
    /\ thr = [okMax |-> ADDR_RESP_COUNT_OK_MAX_DEFAULT,
              failMax |-> ADDR_RESP_COUNT_FAIL_MAX_DEFAULT]
    /\ trace = <<>>
    /\ ring = ODS_default
    /\ putLog = <<>>
    /\ drainLog = <<>>
    /\ lastOp = [op |-> "none", ok |-> TRUE]
    /\ dev = DeviceStatusDefault
    /\ clockUs = 0
    /\ pollLog = <<>>
    /\ flash = KvEmpty
    /\ nvs = NVS_default
    /\ nvsOp = NvsNoOp
    /\ nvsLog = <<>>
    /\ man = DeviceManagerDefault
    /\ cbOp = NoStatusCB
    /\ offCtl = OfflineControlDefault
    /\ apiOp = NoApiOp
    /\ tasks = NoTasks

SpecNvsFail == InitNvsFail /\ [][NvsFailNext]_vars

\* One persistent ring, not yet configured, over an erased namespace, a RAM
\* ring to import into, and restarts
InitNvsRestart ==
    /\ addr = BusAddrStatusDefault
    /\ thr = [okMax |-> ADDR_RESP_COUNT_OK_MAX_DEFAULT,
              failMax |-> ADDR_RESP_COUNT_FAIL_MAX_DEFAULT]
    /\ trace = <<>>
    /\ ring = ODS_init(MaxRingEntries, 2, 1, 1000)
    /\ putLog = <<>>
    /\ drainLog = <<>>
    /\ lastOp = [op |-> "none", ok |-> TRUE]
    /\ dev = DeviceStatusDefault
    /\ clockUs = 0
    /\ pollLog = <<>>
    /\ flash = KvEmpty
    /\ nvs = NVS_default
    /\ nvsOp = NvsNoOp
    /\ nvsLog = <<>>
    /\ man = DeviceManagerDefault
    /\ cbOp = NoStatusCB
    /\ offCtl = OfflineControlDefault
    /\ apiOp = NoApiOp
    /\ tasks = NoTasks

SpecNvsRestart == InitNvsRestart /\ [][NvsRestartNext]_vars

\* A DeviceManager with no device and no callback, under status-change
\* callbacks from a bus and callback registrations
InitMan ==
    /\ addr = BusAddrStatusDefault
    /\ thr = [okMax |-> ADDR_RESP_COUNT_OK_MAX_DEFAULT,
              failMax |-> ADDR_RESP_COUNT_FAIL_MAX_DEFAULT]
    /\ trace = <<>>
    /\ ring = ODS_default
    /\ putLog = <<>>
    /\ drainLog = <<>>
    /\ lastOp = [op |-> "none", ok |-> TRUE]
    /\ dev = DeviceStatusDefault
    /\ clockUs = 0
    /\ pollLog = <<>>
    /\ flash = KvEmpty
    /\ nvs = NVS_default
    /\ nvsOp = NvsNoOp
    /\ nvsLog = <<>>
    /\ man = DeviceManagerDefault
    /\ cbOp = NoStatusCB
    /\ offCtl = OfflineControlDefault
    /\ apiOp = NoApiOp
    /\ tasks = NoTasks

SpecMan == InitMan /\ [][ManNext]_vars

\* A DeviceManager with no device, one task taking snapshots of the device
\* list and looping over them, one task adding and removing devices
InitFrozen ==
    /\ addr = BusAddrStatusDefault
    /\ thr = [okMax |-> ADDR_RESP_COUNT_OK_MAX_DEFAULT,
              failMax |-> ADDR_RESP_COUNT_FAIL_MAX_DEFAULT]
    /\ trace = <<>>
    /\ ring = ODS_default
    /\ putLog = <<>>
    /\ drainLog = <<>>
    /\ lastOp = [op |-> "none", ok |-> TRUE]
    /\ dev = DeviceStatusDefault
    /\ clockUs = 0
    /\ pollLog = <<>>
    /\ flash = KvEmpty
    /\ nvs = NVS_default
    /\ nvsOp = NvsNoOp
    /\ nvsLog = <<>>
    /\ man = DeviceManagerDefault
    /\ cbOp = NoStatusCB
    /\ offCtl = OfflineControlDefault
    /\ apiOp = NoApiOp
    /\ tasks = NoTasks

SpecFrozen == InitFrozen /\ [][FrozenNext]_vars

\* One bus in any offline control state, under offlinebuf requests
InitApi ==
    /\ addr = BusAddrStatusDefault
    /\ thr = [okMax |-> ADDR_RESP_COUNT_OK_MAX_DEFAULT,
              failMax |-> ADDR_RESP_COUNT_FAIL_MAX_DEFAULT]
    /\ trace = <<>>
    /\ ring = ODS_default
    /\ putLog = <<>>
    /\ drainLog = <<>>
    /\ lastOp = [op |-> "none", ok |-> TRUE]
    /\ dev = DeviceStatusDefault
    /\ clockUs = 0
    /\ pollLog = <<>>
    /\ flash = KvEmpty
    /\ nvs = NVS_default
    /\ nvsOp = NvsNoOp
    /\ nvsLog = <<>>
    /\ man = DeviceManagerDefault
    /\ cbOp = NoStatusCB
    /\ offCtl \in OfflineControlStates
    /\ apiOp = NoApiOp
    /\ tasks = NoTasks

SpecApi == InitApi /\ [][ApiNext]_vars

----------------------------------------------------------------------------
(* Properties of BusAddrStatus (checked under SpecAddr) *)

\* The record the run started from is a freshly created one
StartedFresh ==
    /\ Len(trace) > 0
    /\ trace[1].pre.onlineState = "INITIAL"
    /\ trace[1].pre.count = 0
    /\ ~trace[1].pre.isOnline

\* The first k calls all reported the address responding
AllResponding(k) == \A i \in 1..k : trace[i].resp

\* Calls j .. j+k-1 all reported the address not responding
NoneResponding(j, k) == \A i \in j..(j + k - 1) : ~trace[i].resp

\* C1: from a freshly created record, in a run of consecutive
\* handleResponding(true) calls the first okMax-1 calls return changed=false
\* with isOnline still false, and exactly the okMax-th call returns
\* changed=true with isOnline, wasOnceOnline, not flagForDeletion and count 0.
C1_OnlineOnOkMaxthCall ==
    StartedFresh =>
        \A k \in 1..Len(trace) :
            AllResponding(k) =>
                /\ (k < thr.okMax) =>
                       ~trace[k].changed /\ ~trace[k].post.isOnline
                /\ (k = thr.okMax) =>
                       /\ trace[k].changed
                       /\ trace[k].post.isOnline
                       /\ trace[k].post.wasOnceOnline
                       /\ ~trace[k].post.flagForDeletion
                       /\ trace[k].post.count = 0

\* C1 witness: the default thresholds, okMax calls made, the last one changed
C1_Witness ==
    /\ StartedFresh
    /\ thr.okMax = ADDR_RESP_COUNT_OK_MAX_DEFAULT
    /\ Len(trace) = thr.okMax
    /\ AllResponding(thr.okMax)
    /\ ~trace[1].changed
    /\ trace[thr.okMax].changed
    /\ addr.isOnline

\* C2: an online record goes offline only after failMax consecutive
\* handleResponding(false) calls: the first failMax-1 return changed=false and
\* leave isOnline=true, the failMax-th returns changed=true with
\* isOnline=false and spurious=false.
C2_OfflineOnFailMaxthCall ==
    \A j \in 1..Len(trace) : \A k \in 1..thr.failMax :
        (j + k - 1 <= Len(trace) /\ trace[j].pre.isOnline /\ NoneResponding(j, k)) =>
            LET c == trace[j + k - 1] IN
            /\ (k < thr.failMax) => ~c.changed /\ c.post.isOnline
            /\ (k = thr.failMax) => c.changed /\ ~c.post.isOnline /\ ~c.spurious

\* C3: whenever handleResponding(false) makes an offline transition, spurious
\* is set exactly when the record had never been online or was already
\* flagged for deletion; a never-online record's transition is spurious, an
\* online record's is not; handleResponding(true) never sets spurious.
C3_SpuriousExactly ==
    \A i \in 1..Len(trace) :
        LET c == trace[i] IN
        /\ (~c.resp /\ c.changed) =>
               /\ c.spurious <=> (~c.pre.wasOnceOnline \/ c.pre.flagForDeletion)
               /\ ~c.pre.wasOnceOnline => c.spurious
               /\ c.pre.isOnline => ~c.spurious
               /\ ~c.post.isOnline
        /\ ~c.changed => ~c.spurious
        /\ c.resp => ~c.spurious

\* C3 witness: one run with an offline transition of an online record (not
\* spurious) and a later one of the same record, flagged for deletion
\* (spurious)
C3_Witness ==
    \E i, j \in 1..Len(trace) :
        /\ i < j
        /\ ~trace[i].resp /\ trace[i].changed /\ trace[i].pre.isOnline
        /\ ~trace[i].spurious
        /\ ~trace[j].resp /\ trace[j].changed /\ trace[j].pre.wasOnceOnline
        /\ trace[j].pre.flagForDeletion /\ trace[j].spurious

\* C4: after any sequence of handleResponding calls with fixed okMax and
\* failMax, -failMax <= count <= okMax and isOnline implies wasOnceOnline.
C4_CountRangeOnlineWasOnline ==
    /\ 0 - thr.failMax <= addr.count
    /\ addr.count <= thr.okMax
    /\ addr.isOnline => addr.wasOnceOnline

\* C4 witness: a mixed run that went offline and came back online, with a
\* success counted since
C4_Witness ==
    /\ \E i, j \in 1..Len(trace) :
          i < j /\ ~trace[i].resp /\ trace[i].changed /\ trace[j].resp /\ trace[j].changed
    /\ trace[1].pre = BusAddrStatusDefault
    /\ addr.isOnline

----------------------------------------------------------------------------
(* Properties of the RAM ring *)

\* What a non-consuming get of everything returns
GetAll == ODS_get(ring, 0, FALSE, 0, 0)

\* C5: after any sequence of init, clear, put, get and consume on a configured
\* ring, 0 <= count <= maxEntries, 0 <= head < maxEntries and a non-consuming
\* get with maxResponses=0, startIdx=0, maxBytes=0 returns exactly count
\* entries.                                                        (SpecRing)
C5_RingBoundsAndExposure ==
    isConfigured(ring) =>
        /\ 0 <= ring.count /\ ring.count <= ring.maxEntries
        /\ 0 <= ring.headIdx /\ ring.headIdx < ring.maxEntries
        /\ GetAll.n = ring.count
        /\ Len(GetAll.data) = ring.count
        /\ Len(GetAll.metas) = ring.count

\* C5 witness: a ring of two that overflowed and then had one entry drained
C5_Witness ==
    /\ ring.maxEntries = 2
    /\ ring.drops > 0
    /\ ring.count = 1
    /\ lastOp = [op |-> "get", ok |-> TRUE]

\* C6: in every state reachable through the DeviceStatus operations the ring
\* satisfies nextSeq >= count and the firstSeq of getStats is nextSeq - count.
\*                                                                  (SpecDev)
C6_FirstSeqIsNextSeqMinusCount ==
    isConfigured(ring) =>
        /\ ring.nextSeq >= ring.count
        /\ getOfflineStats(ring).firstSeq = ring.nextSeq - ring.count

\* C7: drop-oldest: after n > maxEntries accepted puts with consecutive
\* sequence numbers and no consumption on a freshly initialised ring,
\* count = maxEntries, drops = n - maxEntries, firstSeq is the sequence number
\* of the (n - maxEntries + 1)-th put and get(all) returns the newest
\* maxEntries payloads, oldest first, with their own sequence numbers.
\*                                                                (SpecDrain)
C7_DropOldest ==
    (drainLog = <<>> /\ Len(putLog) > ring.maxEntries) =>
        LET n == Len(putLog)
            first == n - ring.maxEntries
        IN
        /\ ring.count = ring.maxEntries
        /\ ring.drops = n - ring.maxEntries
        /\ ODS_getStats(ring).firstSeq = putLog[first + 1].seq
        /\ GetAll.n = ring.maxEntries
        /\ \A i \in 1..ring.maxEntries :
              /\ GetAll.data[i] = putLog[first + i].data
              /\ GetAll.metas[i].seq = putLog[first + i].seq

\* C7 witness: two more puts than the ring holds, numbered from 10
C7_Witness ==
    /\ drainLog = <<>>
    /\ ring.maxEntries >= 2
    /\ Len(putLog) = ring.maxEntries + 2
    /\ putLog[1].seq = 10
    /\ ring.drops = 2

\* C8: drops increases by exactly one on each accepted put made while
\* count = maxEntries and is left unchanged by every other operation (a put
\* while count < maxEntries, a rejected put, get, consume, getStats).
\*                                                                 (SpecRing)
C8_DropsStep ==
    [][ (lastOp'.op \notin {"init", "clear"}) =>
            ring'.drops = ring.drops +
                (IF lastOp'.op = "put" /\ lastOp'.ok /\ ring.count = ring.maxEntries
                 THEN 1 ELSE 0) ]_vars

\* C8 witness: an accepted put has just overflowed the ring a second time
C8_Witness ==
    /\ lastOp = [op |-> "put", ok |-> TRUE]
    /\ ring.drops = 2
    /\ ring.count = ring.maxEntries

\* Position in putLog of a payload (every put of a run has its own data byte)
PutPos(d) == CHOOSE i \in 1..Len(putLog) : putLog[i].data = d

\* The payloads drained so far followed by those still in the ring
DrainedThenHeld == [i \in 1..Len(drainLog) |-> drainLog[i].data] \o GetAll.data

\* C9: over any interleaving of puts and consuming gets, the payloads returned
\* by the consuming gets (followed by those still held) are a subsequence of
\* the payloads put, in put order, none returned twice, and the entries
\* missing are as many as drop-oldest overwrote.                  (SpecDrain)
C9_DrainInPutOrder ==
    LET out == DrainedThenHeld IN
    /\ \A i \in 1..Len(out) : \E j \in 1..Len(putLog) : putLog[j].data = out[i]
    /\ \A i, j \in 1..Len(out) : i < j => PutPos(out[i]) < PutPos(out[j])
    /\ Len(putLog) = Len(drainLog) + ring.count + ring.drops

\* C9 witness: two drains with an overwritten entry between them
C9_Witness ==
    /\ Len(drainLog) >= 2
    /\ ring.drops >= 1
    /\ PutPos(drainLog[1].data) = 1
    /\ PutPos(drainLog[2].data) > 2
    /\ lastOp.op = "get"

\* The raw device timestamp of a payload, all timestampBytes of it
RawOf(data) ==
    IF ring.timestampBytes = 1 THEN W(data[1])
    ELSE IF ring.timestampBytes = 2 THEN W(getBEUInt16(data))
    ELSE getBEUInt32(data)

\* The time a consumer reconstructs: tsBaseMs + ts * (tsResUs / 1000)
ReconstructedMs(meta) ==
    WAdd(meta.tsBaseMs, W(meta.ts * (ring.timestampResolutionUs \div 1000)))

\* C10: for each timestampBytes in {1,2,4}, the reconstructed times of the
\* entries get returns are non-decreasing, also across raw-timestamp wraps,
\* and wrapCount is the number of puts whose raw timestamp was lower than the
\* previous put's.                                                (SpecDrain)
C10_MonotonicAcrossWraps ==
    /\ \A i \in 1..(GetAll.n - 1) :
          WLe(ReconstructedMs(GetAll.metas[i]), ReconstructedMs(GetAll.metas[i + 1]))
    /\ ring.tsWrapCount =
          Cardinality({i \in 2..Len(putLog) :
                          WLt(RawOf(putLog[i].data), RawOf(putLog[i - 1].data))})

\* The same for 1- and 2-byte timestamps only
C10_MonotonicNarrow == (ring.timestampBytes # 4) => C10_MonotonicAcrossWraps


----------------------------------------------------------------------------
(* Rejected puts (checked under SpecRing) *)

\* C11: a put whose payload length differs from payloadSize, or a put on an
\* unconfigured ring, returns false and leaves the ring as it was (head,
\* count, drops, nextSeq, wrapCount, the timestamp base, the last timestamp
\* and every stored entry): in every reachable state, for every payload
\* offered.                                                        (SpecRing)
C11_RejectedPutChangesNothing ==
    \A t \in TimesUs, data \in FewPayloads \cup {LongPayload} :
        (~isConfigured(ring) \/ Len(data) # ring.payloadSize) =>
            ODS_put(ring, t, ring.nextSeq, data) = [ok |-> FALSE, st |-> ring]

\* C11 witness: a put has just been rejected by a configured ring that holds
\* entries and has dropped one
C11_Witness ==
    /\ lastOp = [op |-> "put", ok |-> FALSE]
    /\ isConfigured(ring)
    /\ ring.count > 0
    /\ ring.drops > 0


----------------------------------------------------------------------------
(* Retention of buffered poll results (checked under SpecDev) *)

\* The payloads the ring holds, oldest first
Held == GetAll.data

\* A completed poll result stored now, with the buffer configured and not
\* paused, goes to the aggregator and becomes the newest entry of the ring
StoreDelivers ==
    BuffersResult(dev, ring) =>
        LET res == storePollResults(dev, ring, 0, 1000000, DevFragment(0), 5)
            after == ODS_get(res.ring, 0, FALSE, 0, 0)
        IN /\ res.aggregated = <<DevWhole>>
           /\ res.stored
           /\ after.n > 0
           /\ after.data[after.n] = DevWhole

\* A step leaves the held entries alone, or appends one
HeldKeptOrAppended ==
    \/ Held' = Held
    \/ Len(Held') = Len(Held) + 1 /\ SubSeq(Held', 1, Len(Held)) = Held

\* A step hands the n oldest entries to a drain and keeps the rest
HeldDrained ==
    \E n \in 1..Len(Held) :
        /\ Held' = SubSeq(Held, n + 1, Len(Held))
        /\ drainLog' = drainLog \o
               [i \in 1..n |-> [seq |-> GetAll.metas[i].seq, data |-> Held[i]]]

\* A step overwrites the oldest entry of a full ring with a newer one
HeldOverwritten ==
    /\ ring.count = ring.maxEntries
    /\ Len(Held') = Len(Held)
    /\ Held # <<>>
    /\ SubSeq(Held', 1, Len(Held) - 1) = Tail(Held)
    /\ ring'.drops = ring.drops + 1

\* A step is clearOfflineBuffer or configureOfflineBuffer
HeldCleared ==
    \/ ring' = ODS_clear(ring)
    \/ \E c \in DevConfigs :
          ring' = ODS_init(c.maxEntries, c.timestampBytes + 1, c.timestampBytes,
                           c.timestampResolutionUs)

----------------------------------------------------------------------------
(* Partial poll assembly (checked under SpecDev) *)

\* Fragments stored with nextReqIdx > 0, and the final results that follow
PartialFragments == {DevFragment(1), <<170, 187>>}
FinalFragments == {SubSeq(DevWhole, 2, 2), <<204>>}

\* What storePollResults(nextReqIdx = 1, f1) then storePollResults(0, f2) do
\* from device d and ring r: nothing is pushed by the first call, exactly one
\* entry (the fragments accumulated, in arrival order, then f2) by the second
AssemblesOneEntry(d, r, f1, f2) ==
    LET r1 == storePollResults(d, r, 1, 1000000, f1, 5)
        r0 == storePollResults(r1.dev, r1.ring, 0, 1000000, f2, 5)
        whole == d.pollDataResult \o f1 \o f2
        N == d.offlineSeq
    IN /\ r1.aggregated = <<>>
       /\ ~r1.stored
       /\ r1.ring = r
       /\ r1.dev.offlineSeq = N
       /\ r1.dev.pollDataResult = d.pollDataResult \o f1
       /\ r0.aggregated = <<whole>>
       /\ r0.seq = N
       /\ r0.dev.offlineSeq = N + 1
       /\ r0.dev.pollDataResult = <<>>
       /\ r0.dev.partialPollNextReqIdx = 0
       /\ (BuffersResult(d, r) /\ Len(whole) = r.payloadSize) =>
              LET after == ODS_get(r0.ring, 0, FALSE, 0, 0) IN
              /\ r0.stored
              /\ r0.data = whole
              /\ after.data[after.n] = whole
              /\ r0.ring.nextSeq = N + 1
              /\ r0.ring.count + r0.ring.drops = r.count + r.drops + 1
       /\ ~(BuffersResult(d, r) /\ Len(whole) = r.payloadSize) => r0.ring = r

\* C13: storePollResults calls with nextReqIdx > 0 only accumulate their
\* bytes, push nothing to the aggregator or the ring and leave offlineSeq;
\* the next call with nextReqIdx = 0 pushes exactly one entry, the fragments
\* in arrival order followed by the final result, with sequence number
\* N = offlineSeq, leaves offlineSeq = N + 1 and an empty accumulator.
\*                                                                  (SpecDev)
C13_PartialPollAssembly ==
    \A f1 \in PartialFragments, f2 \in FinalFragments :
        AssemblesOneEntry(dev, ring, f1, f2)

\* C13 witness: a completed result is in the ring with sequence number 0, and
\* the first fragment of the next result is in the accumulator
C13_Witness ==
    /\ Len(putLog) = 1
    /\ putLog[1].seq = 0
    /\ Held = <<putLog[1].data>>
    /\ dev.offlineSeq = 1
    /\ dev.pollDataResult # <<>>
    /\ dev.partialPollNextReqIdx = 1


----------------------------------------------------------------------------
(* Paused drains (checked under SpecDev) *)

\* The newest entries accepted since the last clear / configure, as many as
\* the ring holds
NewestPut == SubSeq(putLog, Len(putLog) - ring.count + 1, Len(putLog))

\* C15: while drainPaused is set getOfflineResponses returns no entry and
\* leaves the ring as it is; with the flag cleared it returns the entries
\* buffered meanwhile, oldest first; what storePollResults buffers does not
\* depend on drainPaused.                                           (SpecDev)
C15_DrainPausedHoldsEntries ==
    LET paused == setOfflineDrainPaused(dev, TRUE)
        resumed == setOfflineDrainPaused(dev, FALSE)
        drained == getOfflineResponses(resumed, ring, 0)
    IN /\ \A m \in 0..MaxRingEntries :
              getOfflineResponses(paused, ring, m) =
                  [n |-> 0, data |-> <<>>, metas |-> <<>>, st |-> ring]
       /\ dev.offlineDrainPaused => dev = paused
       /\ isConfigured(ring) =>
              /\ drained.n = ring.count
              /\ drained.data = [i \in 1..ring.count |-> NewestPut[i].data]
              /\ drained.st.count = 0
       /\ \A nextReqIdx \in 0..1 :
              LET a == storePollResults(paused, ring, nextReqIdx, 1000000,
                                        DevFragment(nextReqIdx), 5)
                  b == storePollResults(resumed, ring, nextReqIdx, 1000000,
                                        DevFragment(nextReqIdx), 5)
              IN /\ a.ring = b.ring
                 /\ a.stored = b.stored
                 /\ a.aggregated = b.aggregated
                 /\ a.seq = b.seq

\* C15 witness: two results were buffered and none drained, the drain is
\* paused and the ring holds both
C15_Witness ==
    /\ dev.offlineDrainPaused
    /\ ~dev.offlineBufferPaused
    /\ Len(putLog) = 2
    /\ drainLog = <<>>
    /\ ring.count = 2


----------------------------------------------------------------------------
(* Poll scheduling (checked under SpecPoll) *)

\* The pause asked for after a fragment, in microseconds
FragmentPauseUs == PauseAfterSendMs * 1000

\* C14: getPendingIdentPollInfo returns a request only when
\* timeNowUs - lastPollTimeUs >= the effective interval (pollIntervalUs at the
\* start of a poll, partialPollPauseAfterSendMs * 1000 between fragments);
\* two successive start-of-poll requests are at least pollIntervalUs apart;
\* after a fragment stored with pauseAfterSendMs = 5, the call 4 ms after the
\* last poll time returns nothing and the call at 5 ms returns the next
\* request.                                                        (SpecPoll)
C14_PollIntervalRespected ==
    /\ \A i \in 1..Len(pollLog) :
          pollLog[i].t - pollLog[i].since >=
              (IF pollLog[i].isStartOfPoll THEN dev.pollIntervalUs ELSE FragmentPauseUs)
    /\ \A i, j \in 1..Len(pollLog) :
          (i < j /\ pollLog[i].isStartOfPoll /\ pollLog[j].isStartOfPoll) =>
              pollLog[j].t - pollLog[i].t >= dev.pollIntervalUs
    /\ getPendingIdentPollInfo(dev, clockUs).pending =>
          /\ dev.lastPollTimeUs # 0
          /\ clockUs - dev.lastPollTimeUs >=
                 (IF dev.partialPollNextReqIdx = 0 THEN dev.pollIntervalUs
                  ELSE dev.partialPollPauseAfterSendMs * 1000)
    /\ (dev.partialPollNextReqIdx # 0 /\ dev.lastPollTimeUs # 0 /\ dev.pollReqs # 0) =>
          /\ dev.partialPollPauseAfterSendMs * 1000 = FragmentPauseUs
          /\ ~getPendingIdentPollInfo(dev, dev.lastPollTimeUs + 4000).pending
          /\ getPendingIdentPollInfo(dev, dev.lastPollTimeUs + FragmentPauseUs).pending
          /\ ~getPendingIdentPollInfo(dev, dev.lastPollTimeUs + FragmentPauseUs).isStartOfPoll

\* C14 witness: a start-of-poll request, the request for the next fragment
\* exactly 5 ms later, and the start of the following poll
C14_Witness ==
    /\ Len(pollLog) = 3
    /\ pollLog[1].isStartOfPoll
    /\ ~pollLog[2].isStartOfPoll
    /\ pollLog[2].t = pollLog[1].t + FragmentPauseUs
    /\ pollLog[3].isStartOfPoll
    /\ pollLog[3].t = pollLog[2].t + dev.pollIntervalUs

----------------------------------------------------------------------------
(* Schema changes of the persistent ring (checked under SpecNvsCfg) *)

\* The stored meta differs from schema s in payloadSize, timestampBytes or
\* timestampResolutionUs
SchemaDiffers(s) ==
    /\ flash.meta # <<>>
    /\ \/ flash.meta[1].payloadSize # s.payloadSize
       \/ flash.meta[1].timestampBytes # s.timestampBytes
       \/ flash.meta[1].timestampResolutionUs # s.timestampResolutionUs

\* The ring is empty, in the object and in the stored meta
EmptyRing(w) ==
    /\ w.o.meta.count = 0 /\ w.o.meta.head = 0 /\ w.o.meta.drops = 0
    /\ w.kv.meta = <<w.o.meta>>

\* On w, every appendBatch of 1..effective-capacity entries from any first
\* sequence number succeeds and leaves nextSeq - count at that number
FirstBatchAligns(w, payloadSize) ==
    \A firstSeq \in 0..MaxNvsSeq, count \in 1..w.o.effectiveMaxEntries :
        LET a == NVS_appendBatch(w, BatchPayloads(firstSeq, count, payloadSize),
                                 payloadSize, BatchAdjTsMs(firstSeq, count),
                                 firstSeq, count)
        IN /\ a.ok
           /\ a.outLastSeq = firstSeq + count - 1
           /\ a.w.o.meta.count = count
           /\ a.w.o.meta.nextSeq - a.w.o.meta.count = firstSeq
           /\ a.w.kv.meta = <<a.w.o.meta>>

\* C16: after a configure whose payloadSize, timestampBytes or
\* timestampResolutionUs differs from the stored meta, count, head and drops
\* are 0, and the first appendBatch after it (whatever effective capacity was
\* set in between) of a batch that fits the effective capacity succeeds and
\* leaves nextSeq - count = firstSeq.                          (SpecNvsCfg)
C16_SchemaChangeEmptiesRing ==
    /\ \A s \in NvsSchemas, maxEntries \in 1..MaxNvsEntries :
          SchemaDiffers(s) =>
             LET c == NVS_configure(NvsWorld, s.payloadSize, s.timestampBytes,
                                    s.timestampResolutionUs, maxEntries)
             IN /\ c.ok
                /\ EmptyRing(c.w)
                /\ c.w.o.effectiveMaxEntries = maxEntries
                /\ \A eff \in 0..MaxNvsEntries :
                      LET w == NVS_setEffectiveMaxEntries(c.w, eff) IN
                      /\ EmptyRing(w)
                      /\ w.o.effectiveMaxEntries >= 1
                      /\ FirstBatchAligns(w, s.payloadSize)
    /\ (nvsOp.op = "appendBatch" /\ nvsOp.how = "after mismatch"
           /\ nvsOp.n <= nvs.effectiveMaxEntries) =>
          nvsOp.ok /\ nvs.meta.nextSeq - nvs.meta.count = nvsOp.seq

\* C16 witness: a store holding entries was configured with another schema,
\* and the batch of two entries from sequence number 1 appended next left
\* count = 2 and nextSeq = 3
C16_Witness ==
    /\ nvsOp.op = "appendBatch" /\ nvsOp.ok
    /\ nvsOp.how = "after mismatch"
    /\ nvsOp.seq = 1 /\ nvsOp.n = 2
    /\ nvs.meta.count = 2 /\ nvs.meta.nextSeq = 3
    /\ nvs.meta.payloadSize = 3

----------------------------------------------------------------------------
(* Erasure on a schema change (checked under SpecNvsCfg) *)

\* C17: whenever configure finds a stored meta that does not match the
\* request, a meta with a wrong magic or version included, it erases all keys
\* before it re-initialises the meta: no segment blob written before the call
\* is left after it.  (configure writes no segment itself, so none at all is
\* left.)                                                       (SpecNvsCfg)
C17_MismatchErasesAll ==
    (nvsOp.op = "configure" /\ nvsOp.how \in {"foreign", "mismatch"}) =>
        flash.seg = <<>>

\* The part of C17 the code keeps: a stored meta of the right magic and
\* version whose schema differs has every key erased
C17_LoadedMismatchErasesAll ==
    (nvsOp.op = "configure" /\ nvsOp.how = "mismatch") =>
        flash.seg = <<>> /\ flash.meta = <<nvs.meta>> /\ nvs.meta.count = 0

----------------------------------------------------------------------------
(* Power loss during appendBatch (checked under SpecNvsCrash) *)

\* The slots a meta references: the count slots ending at head
SlotsOf(m) ==
    {(m.head + m.maxEntries - m.count + i) % m.maxEntries : i \in 0..(m.count - 1)}

\* The record in slot idx of namespace kv under meta m: timestamp and payload
RecordAt(kv, m, idx) ==
    BlobRead(NVS_readSegment(kv, idx \div m.recordsPerSegment,
                             m.recordsPerSegment * m.recordSize).buf,
             (idx % m.recordsPerSegment) * m.recordSize, m.recordSize)

\* Namespace kv has the meta of namespace good, and every record that meta
\* references is the one good holds
SameRing(kv, good) ==
    /\ kv.meta = good.meta
    /\ kv.meta # <<>> =>
          \A idx \in SlotsOf(kv.meta[1]) :
              RecordAt(kv, kv.meta[1], idx) = RecordAt(good, kv.meta[1], idx)

\* C18: when appendBatch stops after any number of its key-value writes, the
\* namespace found at restart has the pre-batch or the post-batch meta, and
\* every record that meta references is the record of the sequence number
\* the meta assigns to it; also with the ring at capacity before the batch.
\*                                                            (SpecNvsCrash)
C18_CrashSafe ==
    nvsOp.op = "crash" =>
        SameRing(flash, nvsOp.pre) \/ SameRing(flash, nvsOp.post)

\* The part of C18 the code keeps: a batch without a sequence gap that fits
\* into the slots the pre-batch meta does not reference
C18_CrashSafeInFreeSlots ==
    (/\ nvsOp.op = "crash" /\ nvsOp.how # "gap"
     /\ nvsOp.pre.meta # <<>> /\ nvsOp.post.meta # <<>>
     /\ nvsOp.pre.meta[1].count + (nvsOp.post.meta[1].nextSeq - nvsOp.pre.meta[1].nextSeq)
            <= nvsOp.pre.meta[1].maxEntries
     /\ nvsOp.pre.meta[1].count > 0) =>
        SameRing(flash, nvsOp.pre) \/ SameRing(flash, nvsOp.post)

\* The stop that breaks C18 at capacity: no gap, the ring full before the
\* batch, the segment written and the meta not
C18_CrashSafeAtCapacity ==
    (/\ nvsOp.op = "crash" /\ nvsOp.how # "gap"
     /\ nvsOp.pre.meta # <<>>
     /\ nvsOp.pre.meta[1].count = nvsOp.pre.meta[1].maxEntries) =>
        SameRing(flash, nvsOp.pre) \/ SameRing(flash, nvsOp.post)

----------------------------------------------------------------------------
(* Import into the RAM ring (checked under SpecNvs) *)

\* The entries the persistent ring holds, oldest first: the last count
\* entries appendBatch stored
StoredEntries == SubSeq(nvsLog, Len(nvsLog) - nvs.meta.count + 1, Len(nvsLog))

\* Those with a sequence number above importSeq, oldest first
NotYetImported ==
    LET above == {i \in 1..Len(StoredEntries) :
                     StoredEntries[i].seq > nvs.meta.importSeq}
    IN SubSeq(StoredEntries, Len(StoredEntries) - Cardinality(above) + 1,
              Len(StoredEntries))

Min2(a, b) == IF a < b THEN a ELSE b

\* min(number of such entries, destination maxEntries, importMaxEntries when
\* it is not zero)
ImportCountWanted(importMaxEntries) ==
    LET lim == Min2(Len(NotYetImported), ring.maxEntries)
    IN IF importMaxEntries # 0 THEN Min2(lim, importMaxEntries) ELSE lim

\* C20: importTo imports exactly the stored entries with a sequence number
\* above meta.importSeq, oldest first, as many as min(their number, the
\* destination's maxEntries, importMaxEntries when not zero), with one put on
\* the RAM ring per entry, given the entry's sequence number and payload.
\*                                                                 (SpecNvs)
C20_ImportsExactlyNewEntries ==
    /\ Len(nvsLog) >= nvs.meta.count
    /\ \A i \in 1..Len(StoredEntries) :
          StoredEntries[i].seq = nvs.meta.nextSeq - nvs.meta.count + i - 1
    /\ NVS_isReady(NvsWorld) =>
          \A importMaxEntries \in 0..(MaxBatch + 1) :
              LET res == NVS_importTo(NvsWorld, ring, importMaxEntries)
                  wanted == ImportCountWanted(importMaxEntries)
              IN /\ Len(res.puts) = wanted
                 /\ \A i \in 1..wanted :
                       /\ res.puts[i].seq = NotYetImported[i].seq
                       /\ res.puts[i].data = NotYetImported[i].data
                       /\ res.puts[i].ok
                 /\ wanted > 0 =>
                       /\ res.ok
                       /\ res.dest.nextSeq = NotYetImported[wanted].seq + 1
                       /\ res.dest.ringBuffer[((res.dest.headIdx + res.dest.maxEntries - 1)
                                                 % res.dest.maxEntries) + 1]
                             = NotYetImported[wanted].data

\* C20 witness: an importTo limited by importMaxEntries = 1 put one entry,
\* the older of two not yet imported, into a RAM ring with room for two
C20_Witness ==
    /\ nvsOp.op = "importTo" /\ nvsOp.ok /\ nvsOp.n = 1
    /\ ring.maxEntries = 2
    /\ nvs.meta.count = 2
    /\ nvs.meta.importSeq = nvs.meta.nextSeq - 2
    /\ Len(NotYetImported) = 1
    /\ ring.nextSeq = nvs.meta.importSeq + 1

----------------------------------------------------------------------------
(* The import mark (checked under SpecNvs) *)

\* meta.importSeq as stored in the namespace
PersistedImportSeq == IF flash.meta = <<>> THEN 0 ELSE flash.meta[1].importSeq

\* This step is an importTo, or a get or consume on the RAM ring
ImportOrDrainStep == nvsOp'.op \in {"importTo", "get", "consume"}

\* This step is an importTo that imported at least one entry
ImportedStep == nvsOp'.op = "importTo" /\ nvsOp'.n >= 1

\* C19: over importTo calls and get and consume calls on the destination RAM
\* ring, the stored meta.importSeq never decreases, and an importTo that
\* imports at least one entry sets it to the sequence number of the last
\* entry imported (the one the RAM ring took last).                (SpecNvs)
C19_ImportSeqAdvances ==
    [][/\ ImportOrDrainStep => PersistedImportSeq' >= PersistedImportSeq
       /\ ImportedStep => /\ PersistedImportSeq' = ring'.nextSeq - 1
                          /\ nvs'.meta.importSeq = PersistedImportSeq'
                          /\ PersistedImportSeq' > PersistedImportSeq]_vars

\* For comparison: over every operation of the persistent ring the mark can
\* go down (an appendBatch after a sequence gap re-initialises the meta)
C19_ImportSeqNeverDecreasesAnyOp ==
    [][PersistedImportSeq' >= PersistedImportSeq]_vars

\* C19 witness: an importTo of two entries moved the mark to the second
C19_Witness ==
    /\ nvsOp.op = "importTo" /\ nvsOp.ok /\ nvsOp.n = 2
    /\ PersistedImportSeq = 3
    /\ ring.nextSeq = 4
    /\ ring.count = 2

----------------------------------------------------------------------------
(* A sequence gap in appendBatch (checked under SpecNvsCfg) *)

\* The record appendBatch stores for sequence number seq
RecordFor(seq, payloadSize) == LEUInt32(AdjTsMsFor(seq)) \o PayloadFor(seq, payloadSize)

\* Under meta m, namespace kv holds in its referenced slots, oldest first,
\* the records of the sequence numbers nextSeq - count .. nextSeq - 1
HoldsOwnSeqs(kv, m) ==
    \A i \in 0..(m.count - 1) :
        RecordAt(kv, m, (m.head + m.maxEntries - m.count + i) % m.maxEntries)
            = RecordFor(m.nextSeq - m.count + i, m.payloadSize)

\* What importTo hands to a new RAM ring large enough for the whole store
AllImported(w) ==
    NVS_importTo(w, ODS_init(w.o.meta.maxEntries, w.o.meta.payloadSize, 1, 1000), 0).puts

\* C21: appendBatch on a non-empty store with firstSeq > nextSeq resets the
\* store (erase of all keys, then a re-initialised meta) and then stores the
\* batch: the store holds only entries of the batch, nextSeq is firstSeq +
\* count, the first stored sequence number is at least firstSeq, and no
\* entry from before the gap can be reached.                    (SpecNvsCfg)
C21_GapResetsThenStores ==
    /\ (NVS_isReady(NvsWorld) /\ nvs.meta.count > 0) =>
          \A gap \in 1..2, count \in 1..MaxBatch :
              LET firstSeq == nvs.meta.nextSeq + gap
                  a == NVS_appendBatch(NvsWorld,
                          BatchPayloads(firstSeq, count, nvs.meta.payloadSize),
                          nvs.meta.payloadSize, BatchAdjTsMs(firstSeq, count),
                          firstSeq, count)
                  m == a.w.o.meta
                  imported == AllImported(a.w)
              IN /\ a.ok /\ a.outLastSeq = firstSeq + count - 1
                 /\ a.writes[1] = KvErase
                 /\ a.writes[2] = KvSetMeta(NVS_resetMeta(nvs.meta.payloadSize,
                                       nvs.meta.timestampBytes,
                                       nvs.meta.timestampResolutionUs,
                                       nvs.meta.maxEntries))
                 /\ a.w.kv.meta = <<m>>
                 /\ m.nextSeq = firstSeq + count
                 /\ m.count = Min2(count, nvs.effectiveMaxEntries)
                 /\ m.nextSeq - m.count >= firstSeq
                 /\ m.importSeq = 0
                 /\ HoldsOwnSeqs(a.w.kv, m)
                 /\ DOMAIN a.w.kv.seg = {0}
                 /\ \A off \in DOMAIN a.w.kv.seg[0].bytes :
                        off < Min2(count, m.maxEntries) * m.recordSize
                 /\ Len(imported) = m.count
                 /\ \A i \in 1..Len(imported) :
                        /\ imported[i].seq >= firstSeq
                        /\ imported[i].seq < firstSeq + count
                        /\ imported[i].data = PayloadFor(imported[i].seq, m.payloadSize)
    /\ (nvsOp.op = "appendBatch" /\ nvsOp.how = "gap") =>
          /\ nvsOp.ok
          /\ nvs.meta.nextSeq = nvsOp.seq + nvsOp.n
          /\ nvs.meta.nextSeq - nvs.meta.count >= nvsOp.seq
          /\ flash.meta = <<nvs.meta>>
          /\ HoldsOwnSeqs(flash, nvs.meta)
          /\ \A i \in 1..Len(nvsLog) : nvsLog[i].seq >= nvsOp.seq

\* C21 witness: a store holding sequence number 0 was given the batch 2, 3
C21_Witness ==
    /\ nvsOp.op = "appendBatch" /\ nvsOp.how = "gap" /\ nvsOp.ok
    /\ nvsOp.seq = 2 /\ nvsOp.n = 2
    /\ nvs.meta.count = 2 /\ nvs.meta.nextSeq = 4
    /\ Len(nvsLog) = 2

----------------------------------------------------------------------------
(* Batches that overlap what is stored (checked under SpecNvsCfg) *)

\* appendBatch of count entries from firstSeq on the store as it is
AppendedTo(w, firstSeq, count) ==
    NVS_appendBatch(w, BatchPayloads(firstSeq, count, w.o.meta.payloadSize),
                    w.o.meta.payloadSize, BatchAdjTsMs(firstSeq, count),
                    firstSeq, count)

\* C22: with firstSeq < nextSeq appendBatch appends only the entries with
\* sequence numbers >= nextSeq; when every entry is already stored it returns
\* true with lastSeq = nextSeq - 1 and changes neither the meta nor any
\* segment; so the same batch appended twice in a row leaves the store as it
\* was after the first append.                                  (SpecNvsCfg)
C22_SkipsStoredEntries ==
    /\ NVS_isReady(NvsWorld) => HoldsOwnSeqs(flash, nvs.meta)
    /\ (NVS_isReady(NvsWorld) /\ nvs.meta.count > 0) =>
          \A back \in 1..2, count \in 1..(MaxBatch + 1) :
              LET firstSeq == nvs.meta.nextSeq - back
                  a == AppendedTo(NvsWorld, firstSeq, count)
                  m == a.w.o.meta
                  added == count - back
              IN firstSeq >= 0 =>
                 /\ a.ok
                 /\ back >= count =>
                       /\ a.outLastSeq = nvs.meta.nextSeq - 1
                       /\ a.writes = <<>>
                       /\ a.w = NvsWorld
                 /\ back < count =>
                       /\ a.outLastSeq = firstSeq + count - 1
                       /\ m.nextSeq = nvs.meta.nextSeq + added
                       /\ m.count = Min2(nvs.meta.count + added, nvs.effectiveMaxEntries)
                       /\ m.drops = nvs.meta.drops + (nvs.meta.count + added - m.count)
                       /\ m.head = (nvs.meta.head + added) % nvs.meta.maxEntries
                       /\ a.w.kv.meta = <<m>>
                       /\ HoldsOwnSeqs(a.w.kv, m)
    /\ NVS_isReady(NvsWorld) =>
          \A d \in 0..2, count \in 1..MaxBatch :
              LET a == AppendedTo(NvsWorld, BatchFirstSeq(d), count)
                  b == AppendedTo(a.w, BatchFirstSeq(d), count)
              IN /\ a.ok
                 /\ b.ok
                 /\ b.writes = <<>>
                 /\ b.w = a.w
                 /\ b.outLastSeq = a.outLastSeq
    /\ (nvsOp.op = "appendBatch" /\ nvsOp.how = "all stored") =>
          /\ nvsOp.ok
          /\ flash.meta = <<nvs.meta>>
          /\ nvs.meta.nextSeq >= nvsOp.seq + nvsOp.n
    /\ (nvsOp.op = "appendBatch" /\ nvsOp.how = "some stored") =>
          /\ nvsOp.ok
          /\ nvs.meta.nextSeq = nvsOp.seq + nvsOp.n
          /\ \A i, j \in 1..Len(nvsLog) : i < j => nvsLog[i].seq < nvsLog[j].seq

\* C22 witness: the batch 0, 1 was appended to a store that held sequence
\* number 0 alone, and only 1 was added
C22_Witness ==
    /\ nvsOp.op = "appendBatch" /\ nvsOp.how = "some stored" /\ nvsOp.ok
    /\ nvsOp.seq = 0 /\ nvsOp.n = 2
    /\ nvs.meta.nextSeq = 2 /\ nvs.meta.count = 2
    /\ Len(nvsLog) = 2

\* C22 witness of the other case: a batch that was stored already
C22_WitnessAllStored ==
    /\ nvsOp.op = "appendBatch" /\ nvsOp.how = "all stored" /\ nvsOp.ok
    /\ nvsOp.n = 1 /\ nvs.meta.nextSeq = nvsOp.seq + 1 /\ Len(nvsLog) = 2

----------------------------------------------------------------------------
(* What importTo returns (checked under SpecNvs) *)

\* C26: importTo returns true if any entries were imported into the RAM
\* ring, and false when none were.                                  (SpecNvs)
C26_TrueIffImported ==
    nvsOp.op = "importTo" => (nvsOp.ok <=> nvsOp.n > 0)

\* The part of C26 the code keeps: a call that imported entries returns true,
\* and a call that returns true with nothing imported found every stored
\* sequence number at or below importSeq
C26_TrueWhenImported ==
    nvsOp.op = "importTo" =>
        /\ nvsOp.n > 0 => nvsOp.ok
        /\ (nvsOp.ok /\ nvsOp.n = 0) =>
              nvs.meta.count > 0 /\ nvs.meta.importSeq + 1 >= nvs.meta.nextSeq

----------------------------------------------------------------------------
(* The order of appendBatch's key-value writes (checked under SpecNvsCrash) *)

\* The positions of the meta writes and of the segment writes of a call
MetaWritesAt(writes) == {i \in 1..Len(writes) : writes[i].k = "meta"}
SegWritesAt(writes) == {i \in 1..Len(writes) : writes[i].k = "seg"}

C30_WitnessGap ==
    /\ nvsOp.op = "crash" /\ nvsOp.how = "gap" /\ nvsOp.n = 3
    /\ flash.seg # <<>> /\ flash.meta # <<>> /\ flash.meta[1].count = 0

----------------------------------------------------------------------------
(* The sequence numbers get reports (checked under SpecDev) *)

\* The put that stored the i-th oldest entry the ring holds (consumption
\* takes the oldest, overwriting replaces the oldest: the ring holds the
\* newest count accepted puts)
PutOfHeld(i) == putLog[Len(putLog) - ring.count + i]

\* C27: the sequence number get reports in meta for each returned entry is
\* the sequence number that was passed to put when the entry was stored, in
\* every reachable state, also when the device's sequence counter advanced
\* while buffering was paused.                                      (SpecDev)
C27_GetReportsPutSeq ==
    (isConfigured(ring) /\ ring.count <= Len(putLog)) =>
        \A i \in 1..GetAll.n :
            /\ GetAll.data[i] = PutOfHeld(i).data
            /\ GetAll.metas[i].seq = PutOfHeld(i).seq

\* The case the code handles: entries stored with consecutive sequence
\* numbers are reported with them
C27_ConsecutivePutSeqsReported ==
    (/\ isConfigured(ring) /\ ring.count <= Len(putLog)
     /\ \A i \in 1..ring.count : PutOfHeld(i).seq = ring.nextSeq - ring.count + (i - 1)) =>
        \A i \in 1..GetAll.n : GetAll.metas[i].seq = PutOfHeld(i).seq

\* The run that breaks C27: seq 0 stored, seq 1 taken while buffering was
\* paused, seq 2 stored; get reports 1 and 2
C27_PausedGapMislabelled ==
    ~(/\ Len(putLog) = 2 /\ putLog[1].seq = 0 /\ putLog[2].seq = 2
      /\ ring.count = 2 /\ dev.offlineSeq = 3
      /\ GetAll.metas[1].seq = 1 /\ GetAll.metas[2].seq = 2)

----------------------------------------------------------------------------
(* Peeking and consuming (checked under SpecDev) *)

\* Arguments tried for get: start offsets up to past the end of a ring of
\* two, response caps, and byte caps (0 = no cap, one entry)
GetStartIdxs == 0..2
GetMaxResponses == 0..2
GetMaxBytes == {0, ring.payloadSize + META_STORAGE_BYTES}

\* C28: peekOfflineResponses, with any startIdx, maxResponses and maxBytes,
\* leaves head, count, drops, nextSeq and every stored entry unchanged and
\* works whatever the drainPaused flag is; a consuming get ignores a non-zero
\* startIdx and always removes the oldest entries, reducing count by exactly
\* the number returned.                                             (SpecDev)
C28_PeekKeepsConsumeTakesOldest ==
    isConfigured(ring) =>
        LET held == Held
            paused == [dev EXCEPT !.offlineDrainPaused = TRUE]
            unpaused == [dev EXCEPT !.offlineDrainPaused = FALSE]
        IN
        /\ peekOfflineResponses(paused, ring, 0, 0, 0).n = ring.count
        /\ \A startIdx \in GetStartIdxs, m \in GetMaxResponses, maxBytes \in GetMaxBytes :
            LET peek == peekOfflineResponses(paused, ring, startIdx, m, maxBytes)
                got == ODS_get(ring, m, TRUE, startIdx, maxBytes)
            IN /\ peek.st = ring
               /\ peek = peekOfflineResponses(unpaused, ring, startIdx, m, maxBytes)
               /\ got = ODS_get(ring, m, TRUE, 0, maxBytes)
               /\ got.st = [ring EXCEPT !.count = ring.count - got.n]
               /\ got.n <= ring.count
               /\ got.data = SubSeq(held, 1, got.n)
               /\ ODS_get(got.st, 0, FALSE, 0, 0).data = SubSeq(held, got.n + 1, ring.count)

\* C28 witness: the drain is paused, one entry has been drained and one is
\* held (a peek returns it, a consuming get with startIdx 1 takes it)
C28_Witness ==
    /\ dev.offlineDrainPaused
    /\ Len(drainLog) = 1
    /\ ring.count = 1 /\ ring.maxEntries = 2
    /\ peekOfflineResponses(dev, ring, 0, 0, 0).n = 1
    /\ ODS_get(ring, 0, TRUE, 1, 0).n = 1

----------------------------------------------------------------------------
(* How many entries get returns, and which (checked under SpecRing) *)

\* The least member of a non-empty set of numbers
MinOf(S) == CHOOSE x \in S : \A y \in S : x <= y

\* min(count - startIdx, maxResponses when maxResponses > 0,
\*     floor(maxBytes / (payloadSize + 4)) when maxBytes > 0); 0 when
\* startIdx >= count
ExpectedResponses(r, maxResponses, startIdx, maxBytes) ==
    IF startIdx >= r.count THEN 0
    ELSE MinOf({r.count - startIdx}
               \cup (IF maxResponses > 0 THEN {maxResponses} ELSE {})
               \cup (IF maxBytes > 0 THEN {maxBytes \div (r.payloadSize + 4)} ELSE {}))

\* The payload at logical offset k from the oldest entry held: the ring
\* holds the newest count accepted puts
PutAtOffset(k) == putLog[Len(putLog) - ring.count + k + 1].data

\* Byte caps tried: none, less than one entry, one entry, two entries
ByteCaps ==
    {0, ring.payloadSize + META_STORAGE_BYTES - 1, ring.payloadSize + META_STORAGE_BYTES,
     2 * (ring.payloadSize + META_STORAGE_BYTES)}

\* C29: the number of entries get returns is min(count - startIdx,
\* maxResponses when maxResponses > 0, floor(maxBytes / (payloadSize + 4))
\* when maxBytes > 0), and 0 when startIdx >= count; the returned entries are
\* those at logical offsets startIdx, startIdx + 1, ... from the oldest entry
\* (startIdx being 0 for a consuming get).                         (SpecRing)
C29_NumberAndOffsetsReturned ==
    isConfigured(ring) =>
        \A startIdxIn \in 0..2, m \in 0..2, maxBytes \in ByteCaps, consumeEntries \in BOOLEAN :
            LET res == ODS_get(ring, m, consumeEntries, startIdxIn, maxBytes)
                startIdx == IF consumeEntries THEN 0 ELSE startIdxIn
            IN /\ res.n = ExpectedResponses(ring, m, startIdx, maxBytes)
               /\ Len(res.data) = res.n /\ Len(res.metas) = res.n
               /\ \A i \in 1..res.n : res.data[i] = PutAtOffset(startIdx + i - 1)

\* C29 witness: a peek from offset 1 of a ring holding two entries returned
\* the newer one
C29_Witness ==
    /\ lastOp = [op |-> "peek", ok |-> TRUE]
    /\ ring.count = 2
    /\ ODS_get(ring, 0, FALSE, 1, 0).n = 1
    /\ ODS_get(ring, 0, FALSE, 1, 0).data = <<putLog[Len(putLog)].data>>
    /\ ODS_get(ring, 2, FALSE, 0, ring.payloadSize + META_STORAGE_BYTES).n = 1

----------------------------------------------------------------------------
(* The order of busElemStatusCB's calls (checked under SpecMan) *)

\* The names of the calls made for one element, in order
CallNames(cs) == [j \in 1..Len(cs) |-> cs[j].call]

\* k status-change callbacks
CBNames(k) == [j \in 1..k |-> "statusChangeCB"]

\* The calls made for a device that had a record: handleStatusChange, the
\* registered callbacks, then the removal when the element is to be removed;
\* every call but the removal finds the record in the list
RecordThenRemoval(cs, el, nCBs, removed) ==
    /\ CallNames(cs) = <<"handleStatusChange">> \o CBNames(nCBs)
                          \o (IF removed THEN <<"remove">> ELSE <<>>)
    /\ \A j \in 1..Len(cs) :
          /\ cs[j].ptr = cs[1].ptr
          /\ cs[j].inList = (cs[j].call # "remove")
          /\ cs[j].call = "statusChangeCB" =>
                /\ cs[j].isOnline = el.isChangeToOnline
                /\ ~cs[j].newlyCreated

\* The calls made for a newly identified element without a record
CreationThenCallbacks(cs, el, nCBs, removed) ==
    /\ CallNames(cs) = <<"new", "push_back", "setup", "postSetup", "handleStatusChange">>
                          \o CBNames(nCBs)
                          \o <<"registerForDeviceDataChangeCBs">>
                          \o (IF removed THEN <<"remove">> ELSE <<>>)
    /\ \A j \in 1..Len(cs) :
          /\ cs[j].ptr = cs[1].ptr
          /\ cs[j].inList = (cs[j].call \notin {"new", "remove"})
          /\ cs[j].call = "statusChangeCB" => cs[j].isOnline /\ cs[j].newlyCreated

\* Whether a record was removed for the element
Removed(cs) == \E j \in 1..Len(cs) : cs[j].call = "remove"

\* C23 as stated: for an element that changed to offline and has a record,
\* handleStatusChange and all registered status-change callbacks are called
\* while the record is in the device list and the record is removed
\* afterwards; for a newly identified element without a record the order is
\* create, add to list, setup, postSetup, status-change callbacks,
\* data-change registration; a record is removed only on an online to
\* offline change.                                                  (SpecMan)
C23_RemovedOnlyOnChangeToOffline ==
    \A i \in 1..Len(cbOp.statusChanges) :
        LET el == cbOp.statusChanges[i]
            cs == cbOp.calls[i]
            nCBs == Len(cbOp.cbs)
        IN /\ (cs # <<>> /\ cs[1].call = "handleStatusChange" /\ el.isChangeToOffline) =>
                 RecordThenRemoval(cs, el, nCBs, TRUE)
           /\ (cs # <<>> /\ cs[1].call = "new") =>
                 CreationThenCallbacks(cs, el, nCBs, Removed(cs))
           /\ Removed(cs) => el.isChangeToOffline /\ cs[1].call = "handleStatusChange"

\* C23, amended: the same orders whenever the 5 ms waits for the mutex
\* succeed (a wait that fails skips the callbacks, the addition or the
\* removal), and a record is removed on every status change that is not a
\* change to online, whether or not it is a change to offline: also a record
\* created by the same call.                                        (SpecMan)
C23_CallbacksThenRemoval ==
    \A i \in 1..Len(cbOp.statusChanges) :
        LET el == cbOp.statusChanges[i]
            mx == cbOp.mxs[i]
            cs == cbOp.calls[i]
            nCBs == IF mx.cbs THEN Len(cbOp.cbs) ELSE 0
            removed == ~el.isChangeToOnline /\ mx.remove
        IN /\ (cs # <<>> /\ cs[1].call = "handleStatusChange") =>
                 RecordThenRemoval(cs, el, nCBs, removed)
           /\ (cs # <<>> /\ cs[1].call = "new") =>
                 /\ el.isNewlyIdentified
                 /\ mx.add => CreationThenCallbacks(cs, el, nCBs, removed)
                 /\ ~mx.add => CallNames(cs) = <<"new", "delete">>
           /\ cs # <<>> => cs[1].call \in {"handleStatusChange", "new"}
           /\ Removed(cs) <=>
                 (cs # <<>> /\ removed /\ (cs[1].call = "new" => mx.add))
           /\ Removed(cs) => cs[1].ptr \notin ListedDevices(man) \/ i < Len(cbOp.statusChanges)

\* C23 witness: an element with a record changed to offline: handleStatusChange
\* and both registered callbacks were called, then the record was removed
C23_Witness ==
    /\ Len(cbOp.statusChanges) = 1
    /\ cbOp.statusChanges[1].isChangeToOffline
    /\ CallNames(cbOp.calls[1]) =
          <<"handleStatusChange", "statusChangeCB", "statusChangeCB", "remove">>
    /\ man.deviceList = <<>>

\* C23 witness of a creation: a newly identified element came online
C23_WitnessCreated ==
    /\ Len(cbOp.statusChanges) = 1
    /\ cbOp.statusChanges[1].isChangeToOnline
    /\ CallNames(cbOp.calls[1]) =
          <<"new", "push_back", "setup", "postSetup", "handleStatusChange",
            "statusChangeCB", "statusChangeCB", "registerForDeviceDataChangeCBs">>
    /\ Len(man.deviceList) = 1

----------------------------------------------------------------------------
(* The offlinebuf request with simulate, and the drain-paused status it
   reports (checked under SpecApi) *)

\* The calls of a request change nothing
OnlyReads(calls) == \A j \in 1..Len(calls) : calls[j].fn \in ReadOnlyCalls

\* C24: an offlinebuf request with simulate set has no side effects, whatever
\* its action: it changes no pause flag, drain selection, rate override or
\* auto-resume setting and resets no buffer.                        (SpecApi)
C24_SimulateHasNoSideEffects ==
    apiOp.req.simulate => offCtl = apiOp.pre /\ OnlyReads(apiOp.calls)

\* The part of C24 the code keeps: simulate keeps the start branch from
\* running, so a simulated status, start, resume, peek or fetch changes
\* nothing; a simulated stop, pause, reset or clear does what the request
\* does without simulate
C24_SimulateGuardsStartOnly ==
    \A req \in ApiRequestsTried :
        req.simulate =>
            LET res == apiOfflineBuf(offCtl, req)
                real == apiOfflineBuf(offCtl, [req EXCEPT !.simulate = FALSE])
            IN /\ (~DoStop(req) /\ ~DoReset(req)) =>
                     res.ctl = offCtl /\ OnlyReads(res.calls)
               /\ (DoStop(req) \/ DoReset(req)) => res.ctl = real.ctl

\* The drain-paused status of an address as the claim gives it
EffectiveDrainPaused(ctl, address) ==
    \/ ctl.globalDrainPaused
    \/ address \in ctl.drainPaused
    \/ /\ ctl.drainOnlySelected
       /\ ~(\/ address \in ctl.drainSelectedAddrs
            \/ HasTypeName(address) /\ TypeNameOf(address) \in ctl.drainSelectedTypes)

\* C25: the drain-paused status computed for an address is
\* globalDrainPaused OR (address in the per-address drain-paused set) OR
\* (drainOnlySelected AND NOT (address in selectedAddrs OR the address's
\* device type in selectedTypes)), for every combination of these inputs.
\*                                                                  (SpecApi)
C25_DrainPausedStatus ==
    /\ \A a \in BusAddrs :
          DrainPausedReported(offCtl, a) = EffectiveDrainPaused(offCtl, a)
    /\ \A a \in DOMAIN apiOp.stats :
          apiOp.stats[a].drainPaused = EffectiveDrainPaused(offCtl, a)

\* C25 witness: a status request on a bus that drains only the selected
\* type: the address of that type is reported not paused, the other paused
C25_Witness ==
    /\ apiOp.req.action = "status"
    /\ offCtl.drainOnlySelected /\ ~offCtl.globalDrainPaused
    /\ offCtl.drainPaused = {} /\ offCtl.drainSelectedAddrs = {}
    /\ offCtl.drainSelectedTypes = {"VL53"}
    /\ DOMAIN apiOp.stats = BusAddrs
    /\ ~apiOp.stats[1].drainPaused
    /\ apiOp.stats[2].drainPaused

----------------------------------------------------------------------------
(* Key-value writes that fail during appendBatch (checked under SpecNvsFail) *)

\* The namespace holds, under its stored meta, the entries of the batch of n
\* entries from seq that the meta still references
BatchPersisted(kv, seq, n) ==
    /\ kv.meta # <<>>
    /\ kv.meta[1].nextSeq >= seq + n
    /\ HoldsOwnSeqs(kv, kv.meta[1])

\* C31: when appendBatch returned false because a segment write or the meta
\* save failed, appendBatch called again with the same batch stores it: an
\* appendBatch that returns true leaves the batch in the persisted meta and
\* segments, also after an earlier appendBatch failed.          (SpecNvsFail)
C31_SuccessMeansStored ==
    (nvsOp.op = "appendBatch" /\ nvsOp.ok) => BatchPersisted(flash, nvsOp.seq, nvsOp.n)

\* The part of C31 the code keeps: the batch is persisted by a successful
\* appendBatch whenever _meta is the stored meta on entry and the store holds
\* the entries it references, and a retry after the failed saveMeta of the
\* sequence-gap path stores the batch
C31_StoredWhenMetaInSync ==
    (/\ NVS_isReady(NvsWorld) /\ flash.meta = <<nvs.meta>>
     /\ HoldsOwnSeqs(flash, nvs.meta)) =>
        \A d \in 0..2, count \in 1..MaxBatch :
            LET firstSeq == BatchFirstSeq(d)
                a == AppendedTo(NvsWorld, firstSeq, count)
                gapFail == NVS_appendBatchWriteFails(NvsWorld,
                               BatchPayloads(firstSeq, count, nvs.meta.payloadSize),
                               nvs.meta.payloadSize, BatchAdjTsMs(firstSeq, count),
                               firstSeq, count, 2)
                retry == AppendedTo(gapFail.w, firstSeq, count)
            IN /\ a.ok /\ BatchPersisted(a.w.kv, firstSeq, count)
               /\ IsSeqGap(nvs.meta, firstSeq) =>
                     /\ ~gapFail.ok
                     /\ retry.ok /\ BatchPersisted(retry.w.kv, firstSeq, count)

----------------------------------------------------------------------------
(* The records appendBatch leaves alone (checked under SpecNvsFail) *)

\* The slots appendBatch writes for count entries from firstSeq on a store
\* with meta m, when there is no sequence gap
SlotsWritten(m, firstSeq, count) ==
    LET skip == IF m.count = 0 THEN 0 ELSE SkipCount(m, firstSeq) IN
    {(m.head + j) % m.maxEntries : j \in 0..(count - skip - 1)}

\* Namespace after holds in every slot outside written the record that
\* namespace before holds there
OtherRecordsKept(before, after, m, written) ==
    \A idx \in (0..(m.maxEntries - 1)) \ written :
        RecordAt(after, m, idx) = RecordAt(before, m, idx)

\* The part of C32 the code keeps: with every stored segment readable, an
\* appendBatch without a sequence gap changes only the slots it writes
C32_OnlyWrittenSlotsChange ==
    NVS_isReady(NvsWorld) =>
        \A d \in 0..1, count \in 1..MaxBatch :
            LET firstSeq == BatchFirstSeq(d)
                a == AppendedTo(NvsWorld, firstSeq, count)
            IN a.ok /\ OtherRecordsKept(flash, a.w.kv, nvs.meta,
                                        SlotsWritten(nvs.meta, firstSeq, count))

\* C32: appendBatch changes only the record slots it writes: every other
\* record of a segment it touches keeps its stored timestamp and payload,
\* also when the stored segment fails to read (a segment is zero-initialised
\* only when it is absent).                                     (SpecNvsFail)
C32_OtherRecordsKept ==
    /\ C32_OnlyWrittenSlotsChange
    /\ (/\ nvsOp.op = "appendBatch" /\ nvsOp.how = "read failed" /\ nvsOp.ok
        /\ ~IsSeqGap(nvsOp.pre.o.meta, nvsOp.seq)) =>
          OtherRecordsKept(nvsOp.pre.kv, flash, nvsOp.pre.o.meta,
                           SlotsWritten(nvsOp.pre.o.meta, nvsOp.seq, nvsOp.n))

----------------------------------------------------------------------------
(* The effective cap of the persistent ring (checked under SpecNvs) *)

\* C33: on a configured persistent ring, after any configure,
\* setEffectiveMaxEntries, appendBatch and importTo calls, count <= effective
\* max entries <= maxEntries and head < maxEntries; setEffectiveMaxEntries(n)
\* with 0 < n < count adds count - n to drops, clips count to n so that the n
\* newest entries remain, and saves the meta; n = 0 or n > maxEntries sets
\* the cap to maxEntries.                                          (SpecNvs)
C33_CountWithinEffectiveCap ==
    NVS_isReady(NvsWorld) =>
        LET m == nvs.meta IN
        /\ m.count <= nvs.effectiveMaxEntries
        /\ nvs.effectiveMaxEntries <= m.maxEntries
        /\ m.head < m.maxEntries
        /\ HoldsOwnSeqs(flash, m)
        /\ \A n \in 0..(MaxNvsEntries + 1) :
              LET w == NVS_setEffectiveMaxEntries(NvsWorld, n)
                  m1 == w.o.meta
              IN /\ (n = 0 \/ n > m.maxEntries) =>
                       /\ w.o.effectiveMaxEntries = m.maxEntries
                       /\ m1 = m /\ w.kv = flash
                 /\ (0 < n /\ n <= m.maxEntries) => w.o.effectiveMaxEntries = n
                 /\ (0 < n /\ n < m.count) =>
                       /\ m1 = [m EXCEPT !.count = n, !.drops = m.drops + (m.count - n)]
                       /\ w.kv.meta = <<m1>>
                       /\ w.kv.seg = flash.seg
                       /\ HoldsOwnSeqs(w.kv, m1)
                       /\ \A i \in 1..n :
                             AllImported([w EXCEPT !.o.meta.importSeq = 0])[i].seq
                                 >= m.nextSeq - n
                 /\ (0 < n /\ n >= m.count /\ n <= m.maxEntries) =>
                       m1 = m /\ w.kv = flash
        /\ (nvsOp.op = "setEffectiveMaxEntries" /\ nvsOp.how = "clipped") =>
              /\ m.count = nvsOp.n
              /\ nvs.effectiveMaxEntries = nvsOp.n
              /\ m.drops > 0
              /\ flash.meta = <<m>>

\* C33 witness: a store of two entries was clipped to its newest one
C33_Witness ==
    /\ nvsOp.op = "setEffectiveMaxEntries" /\ nvsOp.how = "clipped" /\ nvsOp.n = 1
    /\ nvs.meta.count = 1 /\ nvs.meta.drops = 1 /\ nvs.meta.nextSeq = 2
    /\ nvs.meta.maxEntries = 2
    /\ NVS_isReady(NvsWorld)

----------------------------------------------------------------------------
(* Restarts of the persistent ring (checked under SpecNvsRestart) *)

\* The meta stored in namespace kv is of this build and has the schema s
StoredSchemaIs(kv, s) ==
    /\ kv.meta # <<>>
    /\ kv.meta[1].magic = OFFLINE_NVS_META_MAGIC
    /\ kv.meta[1].version = OFFLINE_NVS_META_VERSION
    /\ kv.meta[1].payloadSize = s.payloadSize
    /\ kv.meta[1].timestampBytes = s.timestampBytes
    /\ kv.meta[1].timestampResolutionUs = s.timestampResolutionUs

\* C34: a configure at restart whose payloadSize, timestampBytes and
\* timestampResolutionUs match the stored meta succeeds and leaves the
\* namespace as it was: head, count, nextSeq, importSeq, drops and every
\* stored record are those persisted before the restart, and the stored
\* maxEntries stays in force whatever maxEntries is requested.
\*                                                          (SpecNvsRestart)
C34_RestartKeepsRing ==
    [][(nvsOp'.op = "restart" /\ StoredSchemaIs(flash, BaseSchema)) =>
          /\ nvsOp'.ok /\ nvsOp'.how = "match"
          /\ flash' = flash
          /\ nvs'.meta = flash.meta[1]
          /\ nvs'.ready /\ nvs'.metaValid
          /\ nvs'.effectiveMaxEntries = flash.meta[1].maxEntries
          /\ NVS_isReady(NvsWorld) => nvs'.meta = nvs.meta
          /\ HoldsOwnSeqs(flash', nvs'.meta)
          /\ nvsLog' = nvsLog]_vars

\* C34 witness: a store of maxEntries 2 that holds entries, one of them
\* imported, was restarted with maxEntries 3 requested
C34_Witness ==
    /\ nvsOp.op = "restart" /\ nvsOp.how = "match" /\ nvsOp.ok
    /\ nvsOp.n = 3 /\ nvs.meta.maxEntries = 2
    /\ nvs.meta.count = 2 /\ nvs.meta.importSeq = 1 /\ nvs.meta.nextSeq = 3
    /\ nvs.meta.drops = 1

----------------------------------------------------------------------------
(* Everything stored is imported once (checked under SpecNvs) *)

\* What repeated importTo calls deliver through a RAM ring r that is drained
\* by a consuming get after each call, until a call puts nothing: sequence
\* number and payload of each entry got, in order (at most calls calls)
RECURSIVE DrainedImports(_, _, _)
DrainedImports(w, r, calls) ==
    LET res == NVS_importTo(w, r, 0)
        g == ODS_get(res.dest, 0, TRUE, 0, 0)
    IN IF calls = 0 \/ res.puts = <<>> THEN <<>>
       ELSE [i \in 1..g.n |-> [seq |-> g.metas[i].seq, data |-> g.data[i]]]
            \o DrainedImports(res.w, g.st, calls - 1)

\* The entries the meta m references, oldest first
EntriesOf(m) ==
    [i \in 1..m.count |-> [seq |-> m.nextSeq - m.count + i - 1,
                           data |-> PayloadFor(m.nextSeq - m.count + i - 1,
                                               m.payloadSize)]]

\* A store from which nothing was imported since it was initialised
NothingImportedYet == NVS_isReady(NvsWorld) /\ nvs.meta.count > 0 /\ nvs.meta.importSeq = 0

\* C35: from a freshly initialised persistent store filled by appendBatch
\* from any first sequence number (0 included), repeated importTo calls into
\* a RAM ring drained between the calls deliver every stored entry exactly
\* once, oldest first.                                              (SpecNvs)
C35_EveryStoredEntryOnce ==
    NothingImportedYet =>
        \A k \in 1..MaxRingEntries :
            DrainedImports(NvsWorld, ODS_init(k, nvs.meta.payloadSize, 1, 1000),
                           nvs.meta.count + 1) = EntriesOf(nvs.meta)

\* The part of C35 the code keeps: every stored entry is delivered once and
\* in order when the oldest stored sequence number is not 0
C35_EveryStoredEntryOnceFromSeq1 ==
    (NothingImportedYet /\ nvs.meta.nextSeq - nvs.meta.count >= 1) =>
        \A k \in 1..MaxRingEntries :
            DrainedImports(NvsWorld, ODS_init(k, nvs.meta.payloadSize, 1, 1000),
                           nvs.meta.count + 1) = EntriesOf(nvs.meta)

\* With sequence number 0 stored, exactly that entry is never delivered
C35_SeqZeroSkipped ==
    (NothingImportedYet /\ nvs.meta.nextSeq = nvs.meta.count) =>
        \A k \in 1..MaxRingEntries :
            DrainedImports(NvsWorld, ODS_init(k, nvs.meta.payloadSize, 1, 1000),
                           nvs.meta.count + 1) = Tail(EntriesOf(nvs.meta))

----------------------------------------------------------------------------
(* Round trip through the persistent ring (checked under SpecNvs) *)

\* The entries get returns, without consuming, from an empty RAM ring of the
\* store's schema after one importTo of everything not yet imported
RoundTripGot ==
    LET r0 == ODS_init(nvs.meta.maxEntries, nvs.meta.payloadSize,
                       nvs.meta.timestampBytes, nvs.meta.timestampResolutionUs)
    IN ODS_get(NVS_importTo(NvsWorld, r0, 0).dest, 0, FALSE, 0, 0)

\* The time a consumer reconstructs for an entry got: tsBaseMs + ts * (tsResUs / 1000)
RoundTripMs(meta) ==
    WAdd(meta.tsBaseMs, W(meta.ts * (nvs.meta.timestampResolutionUs \div 1000)))

\* C36: entries appended with appendBatch and then imported into an empty,
\* freshly initialised RAM ring of the same schema are returned by get with
\* the same payload bytes, the same sequence numbers and a reconstructed time
\* equal to the adjustedTsMs persisted for each entry.              (SpecNvs)
C36_RoundTrip ==
    (NVS_isReady(NvsWorld) /\ NotYetImported # <<>>) =>
        /\ RoundTripGot.n = Len(NotYetImported)
        /\ \A i \in 1..Len(NotYetImported) :
              /\ RoundTripGot.data[i] = NotYetImported[i].data
              /\ RoundTripGot.metas[i].seq = NotYetImported[i].seq
              /\ RoundTripMs(RoundTripGot.metas[i]) = W(NotYetImported[i].adjTsMs)

\* The part of C36 the code keeps: payloads and sequence numbers come back,
\* the first entry has its persisted time, and each later entry has the
\* first entry's time moved by the difference of the raw timestamps in the
\* two payloads (no raw timestamp wraps here)
C36_RoundTripOfFirstTime ==
    (NVS_isReady(NvsWorld) /\ NotYetImported # <<>>) =>
        /\ RoundTripGot.n = Len(NotYetImported)
        /\ \A i \in 1..Len(NotYetImported) :
              /\ RoundTripGot.data[i] = NotYetImported[i].data
              /\ RoundTripGot.metas[i].seq = NotYetImported[i].seq
              /\ RoundTripMs(RoundTripGot.metas[i]) =
                    W(NotYetImported[1].adjTsMs
                      + (NotYetImported[i].data[1] - NotYetImported[1].data[1])
                        * (nvs.meta.timestampResolutionUs \div 1000))

----------------------------------------------------------------------------
(* The deletion flag of BusAddrStatus (checked under SpecAddr) *)

\* Call c made an offline transition / an online transition
OfflineTransition(c) == ~c.resp /\ c.changed /\ ~c.post.isOnline
OnlineTransition(c) == c.resp /\ c.changed /\ c.post.isOnline

\* C37: in every reachable state a record that is not online but was once
\* online is flagged for deletion; the flag is set only by an offline
\* transition and cleared only by an online transition; while it is set a
\* non-response is still counted (the count goes down or the call reports an
\* offline transition) and every offline transition reported is spurious.
C37_FlaggedWhileOfflineAfterOnline ==
    /\ (~addr.isOnline /\ addr.wasOnceOnline) => addr.flagForDeletion
    /\ \A i \in 1..Len(trace) :
          LET c == trace[i] IN
          /\ (~c.pre.flagForDeletion /\ c.post.flagForDeletion) => OfflineTransition(c)
          /\ (c.pre.flagForDeletion /\ ~c.post.flagForDeletion) => OnlineTransition(c)
          /\ OfflineTransition(c) => c.post.flagForDeletion
          /\ OnlineTransition(c) => ~c.post.flagForDeletion
          /\ (c.pre.flagForDeletion /\ ~c.resp) =>
                /\ OfflineTransition(c) \/ c.post.count < c.pre.count
                /\ c.changed => c.spurious
                /\ c.post.flagForDeletion

\* C37 witness: a record that had been online went offline, and a later
\* non-response while it was flagged was reported as a spurious offline
\* transition
C37_Witness ==
    /\ ~addr.isOnline /\ addr.wasOnceOnline /\ addr.flagForDeletion
    /\ \E i, j \in 1..Len(trace) :
          /\ i < j
          /\ OfflineTransition(trace[i]) /\ trace[i].pre.isOnline
          /\ ~trace[i].pre.flagForDeletion
          /\ trace[j].pre.flagForDeletion /\ trace[j].pre.wasOnceOnline
          /\ OfflineTransition(trace[j]) /\ trace[j].spurious

----------------------------------------------------------------------------
(* C38: one device record per unique id *)

\* No two entries of a device list have the same id
OneRecordPerId(deviceList) ==
    \A i, j \in 1..Len(deviceList) :
        deviceList[i].id = deviceList[j].id => i = j

\* Every lookup of the last busElemStatusCB call obtained the mutex
EveryLookupTaken(op) == \A i \in 1..Len(op.mxs) : op.mxs[i].find

\* C38: the device list holds at most one device record per unique id after
\* any sequence of busElemStatusCB calls, whichever of the 5 ms waits for the
\* access mutex time out
C38_OneRecordPerId == OneRecordPerId(man.deviceList)

\* C38, the case that holds: a busElemStatusCB call whose lookups all obtain
\* the mutex leaves a list with one record per id as such a list
C38_OneRecordPerIdWhenLookupsTaken ==
    [][(OneRecordPerId(man.deviceList) /\ EveryLookupTaken(cbOp'))
          => OneRecordPerId(man'.deviceList)]_vars

\* C38, the failing case: the last call looked up an id, did not obtain the
\* mutex, and pushed a record for an id that has more than one now
C38_SecondRecordAfterLookupTimeout ==
    /\ ~OneRecordPerId(man.deviceList)
    /\ \E i \in 1..Len(cbOp.mxs) :
          /\ ~cbOp.mxs[i].find
          /\ cbOp.statusChanges[i].isNewlyIdentified
          /\ \E k \in 1..Len(cbOp.calls[i]) : cbOp.calls[i][k].call = "push_back"

----------------------------------------------------------------------------
(* C39: getDeviceListFrozen returns a snapshot of one instant *)

\* C39: what getDeviceListFrozen returned is the non-null devices (up to
\* maxDevices, in list order) of the device list at one instant of the call;
\* the mutex is not held while the caller loops over the copy; the copy
\* stays as returned whatever is added or removed meanwhile; no turn of the
\* copying loop ran while an update of the list was half-done; and a call
\* that did not obtain the mutex returned no device
C39_FrozenSnapshotAtomic ==
    LET f == tasks.frozen IN
    /\ f.numDevices = Len(f.pDevices)
    /\ ~f.sawMid
    /\ f.pc = "iterate" =>
          /\ "frozen" \notin tasks.holders
          /\ f.how = "copied" =>
                /\ \E deviceList \in tasks.seen :
                      f.pDevices = FrozenOf(deviceList, f.maxDevices)
                /\ f.pDevices = f.returned
          /\ f.how = "timeout" => f.numDevices = 0 /\ f.pDevices = <<>>

\* C39 happens: the caller is looping over a returned copy of two devices
\* while the other task, holding the mutex, is half-way through an update,
\* and the list is no longer what the copy was taken from
C39_Witness ==
    LET f == tasks.frozen IN
    /\ f.pc = "iterate" /\ f.how = "copied"
    /\ f.numDevices = 2 /\ f.devIdx = 1
    /\ tasks.mid /\ tasks.holders = {"cb"}
    /\ FrozenOf(man.deviceList, f.maxDevices) # f.pDevices

\* C39 happens too: a call found the mutex held and returned no device
\* although the list holds one
C39_WitnessTimeout ==
    /\ tasks.frozen.pc = "iterate" /\ tasks.frozen.how = "timeout"
    /\ Len(man.deviceList) > 0

----------------------------------------------------------------------------
(* C40: the offlinebuf control sequence *)

\* Buffering of an address is paused: bus-wide or for the address
BufferingPaused(ctl, address) ==
    ctl.globalBufferPaused \/ address \in ctl.bufferPaused

\* The last request made no resetOfflineBuffers call
NoResetCall(op) ==
    \A i \in 1..Len(op.calls) : op.calls[i].fn # "resetOfflineBuffers"

\* C40: without simulate, after start or resume for the target addresses T
\* buffering is unpaused for T and paused for every other address of the bus,
\* draining is paused bus-wide and auto-resume is enabled for T; after stop
\* or pause buffering is paused for T, draining is paused bus-wide, the rate
\* overrides of T are cleared, the drain selection is empty, auto-resume is
\* disabled and the buffers of T are reset if and only if clear is set;
\* status, peek and fetch leave the control state as it was
C40_ControlSequence ==
    LET req == apiOp.req
        T == TargetAddrs(req)
    IN (req.action # "none" /\ ~req.simulate /\ T # {}) =>
       /\ req.action \in {"start", "resume"} =>
             /\ \A a \in T : ~BufferingPaused(offCtl, a)
             /\ \A a \in BusAddrs \ T : BufferingPaused(offCtl, a)
             /\ offCtl.globalDrainPaused
             /\ offCtl.autoResume.enabled /\ offCtl.autoResume.addresses = T
       /\ req.action \in {"stop", "pause"} =>
             /\ \A a \in T : BufferingPaused(offCtl, a)
             /\ offCtl.globalDrainPaused
             /\ \A a \in T : offCtl.rateOverridesMs[a] = 0
             /\ offCtl.drainSelectedAddrs = {} /\ offCtl.drainSelectedTypes = {}
             /\ ~offCtl.autoResume.enabled
             /\ req.clear => \A a \in T : offCtl.depth[a] = 0
             /\ ~req.clear => NoResetCall(apiOp) /\ offCtl.depth = apiOp.pre.depth
       /\ req.action \in {"status", "peek", "fetch"} => offCtl = apiOp.pre

\* C40 happens: a start for address 2 arrived with buffering paused bus-wide
\* and a rate override asked for; address 1 ends paused, address 2 unpaused
C40_Witness ==
    /\ apiOp.req.action = "start" /\ ~apiOp.req.simulate
    /\ apiOp.req.addresses = {2}
    /\ apiOp.pre.globalBufferPaused
    /\ BufferingPaused(offCtl, 1) /\ ~BufferingPaused(offCtl, 2)
    /\ offCtl.autoResume.addresses = {2}

\* C40 happens too: a pause with clear arrived after a start with a rate
\* override
C40_WitnessStop ==
    /\ apiOp.req.action = "pause" /\ ~apiOp.req.simulate /\ apiOp.req.clear
    /\ apiOp.pre.autoResume.enabled
    /\ \E a \in BusAddrs : apiOp.pre.rateOverridesMs[a] > 0 /\ apiOp.pre.depth[a] > 0
    /\ \A a \in BusAddrs : offCtl.depth[a] = 0 /\ offCtl.rateOverridesMs[a] = 0

\* ... and a destructive fetch arrived on a started bus
C40_WitnessFetch ==
    /\ apiOp.req.action = "fetch" /\ ~apiOp.req.simulate /\ ~apiOp.req.nonDestructive
    /\ apiOp.pre.autoResume.enabled /\ offCtl.autoResume.enabled

====
